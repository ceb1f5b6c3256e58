------------------------------ MODULE MCScopes ------------------------------
\* The scopes the app requests, and a dozen permissions a server could grant.
EXTENDS Scopes
CONSTANTS profile, track
Collections == {profile, track}
Audio == [type |-> "audio", subtype |-> "*"]
Image == [type |-> "image", subtype |-> "*"]
Mp3   == [type |-> "audio", subtype |-> "mpeg"]
Png   == [type |-> "image", subtype |-> "png"]
Patterns == {AnyType, Audio, Image, Mp3, Png}
Blob(accept) ==
  [resource |-> "blob", accept |-> accept, collection |-> {}, action |-> {}, scope |-> ""]
Repo(collection, action) ==
  [resource |-> "repo", accept |-> {}, collection |-> collection, action |-> action, scope |-> ""]
Rpc == [resource |-> "other", accept |-> {}, collection |-> {}, action |-> {}, scope |-> "rpc"]

AppScopes == {Repo({profile}, {}), Blob({Audio}), Blob({Image})}
Permissions ==
  {Blob({Audio}), Blob({Image}), Blob({Audio, Image}), Blob({AnyType}), Blob({Mp3, Png}),
   Repo({profile}, {}), Repo({profile}, {"create"}), Repo({profile, track}, {"update", "delete"}),
   Repo({track}, {}), Repo({"*"}, {"create", "update"}), Repo({"*"}, {"delete"}), Rpc}
=============================================================================
