----------------------------- MODULE LocalPath -----------------------------
(***************************************************************************)
(* The redirect of a login, from the form to the Location of its last      *)
(* answer.  It is reduced to a path on this site when the form is posted   *)
(* and again when the callback takes it out of the cookie session, and     *)
(* http.Redirect cleans what is left once more, in its own way.            *)
(*                                                                         *)
(* A text is a sequence of characters: those with a meaning in a URL, "a"  *)
(* for the rest, "unsafe" for a backslash or a control character, and the  *)
(* percent-encodings of those with a meaning.  "%252F" is a slash that has *)
(* been encoded twice, so "%2F" is both an encoded slash and, once "%252F" *)
(* is decoded, a text with no slash in it.                                 *)
(***************************************************************************)
EXTENDS Naturals, SequencesExt

CONSTANTS Alphabet, MaxLength

Encoding == [c \in {"/", ".", "?", "#", "unsafe", "%2F"} |->
               IF c = "/" THEN "%2F" ELSE IF c = "." THEN "%2E" ELSE IF c = "?" THEN "%3F"
               ELSE IF c = "#" THEN "%23" ELSE IF c = "unsafe" THEN "%5C" ELSE "%252F"]
\* What is encoded where a decoded path is written.
Reserved == {"?", "#", "unsafe", "%2F"}
Char == DOMAIN Encoding \cup Range(Encoding) \cup {"a"}

ASSUME LocalPathAssumption == Alphabet \subseteq Char /\ MaxLength \in Nat

VARIABLES at, form, redirect

vars == <<at, form, redirect>>

----------------------------------------------------------------------------
(* net/url and path *)

Decode(s) == [i \in DOMAIN s |-> IF s[i] \in Range(Encoding)
                                 THEN CHOOSE c \in DOMAIN Encoding : Encoding[c] = s[i]
                                 ELSE s[i]]
Encode(s, those) == [i \in DOMAIN s |-> IF s[i] \in those THEN Encoding[s[i]] ELSE s[i]]

\* What comes before the first c, and the rest, with the c.
CutAt(s, c) == LET i == SelectInSeq(s, LAMBDA x : x = c) IN IF i = 0 THEN Len(s) + 1 ELSE i
Until(s, c) == SubSeq(s, 1, CutAt(s, c) - 1)
From(s, c)  == SubSeq(s, CutAt(s, c), Len(s))

\* The parts of a URL without a scheme.
Fragment(s) == From(s, "#")
Query(s)    == From(Until(s, "#"), "?")
BeforeQuery(s) == Until(Until(s, "#"), "?")

\* Two slashes, but not three, start a host, which takes the path with it up
\* to the next slash.
NamesHost(s) == IsPrefix(<<"/", "/">>, BeforeQuery(s)) /\ ~IsPrefix(<<"/", "/", "/">>, BeforeQuery(s))

\* A fragment that is not properly encoded is encoded anew.
FragmentString(f) ==
  IF Len(f) <= 1 THEN <<>>
  ELSE IF Contains(Tail(f), "#") THEN <<"#">> \o Encode(Decode(Tail(f)), Reserved \ {"?"})
  ELSE f

\* The texts between the slashes; nothing comes before that of a rooted path.
AddChar(segs, c) == IF c = "/" THEN Append(segs, <<>>)
                    ELSE Append(Front(segs), Append(Last(segs), c))
Segments(s) == FoldLeft(AddChar, <<<<>>>>, s)

Parent(segs) == IF segs = <<>> THEN <<>> ELSE Front(segs)
Lexical(segs, seg) == IF seg \in {<<>>, <<".">>} THEN segs
                      ELSE IF seg = <<".", ".">> THEN Parent(segs)
                      ELSE Append(segs, seg)

AddSegment(s, seg) == s \o <<"/">> \o seg
Join(segs) == FoldLeft(AddSegment, <<>>, segs)

\* path.Clean of a rooted path.
CleanSegments(segs) == FoldLeft(Lexical, <<>>, segs)
Clean(s) == LET segs == CleanSegments(Segments(s)) IN
            IF segs = <<>> THEN <<"/">> ELSE Join(segs)

CleanKeepingSlash(s) == LET cleaned == Clean(s) IN
                        IF Last(s) = "/" /\ cleaned # <<"/">> THEN Append(cleaned, "/") ELSE cleaned

----------------------------------------------------------------------------

Rooted(s) == IsPrefix(<<"/">>, s)

unsafeInPath(s) == Contains(s, "unsafe")

\* Only the beginning is looked at.
localPath_Prefix(s) == IF Rooted(s) THEN s ELSE <<>>

\* The decoded path is written out as it is.
localPath_Decoded(s) ==
  LET path == Decode(BeforeQuery(s)) IN
  IF ~Rooted(s) \/ unsafeInPath(s) \/ NamesHost(s) \/ unsafeInPath(path) THEN <<>>
  ELSE CleanKeepingSlash(path) \o Query(s) \o FragmentString(Fragment(s))

\* The path is not cleaned.
localPath_Unclean(s) ==
  LET path == Decode(BeforeQuery(s)) IN
  IF ~Rooted(s) \/ unsafeInPath(s) \/ NamesHost(s) \/ unsafeInPath(path) THEN <<>>
  ELSE Encode(path, Reserved) \o Query(s) \o FragmentString(Fragment(s))

\* Empty stands for no redirect.  A text that starts with a slash has no scheme.
\* Two slashes and no host after them leave an empty path, which is refused too.
localPath(s) ==
  LET path == Decode(BeforeQuery(s)) IN
  IF ~Rooted(s) \/ unsafeInPath(s) \/ NamesHost(s) \/ unsafeInPath(path) THEN <<>>
  ELSE Encode(CleanKeepingSlash(path), Reserved) \o Query(s) \o FragmentString(Fragment(s))

\* What http.Redirect makes of a rooted URL: with no host, the text before the
\* first question mark is cleaned, as it stands.
RedirectTo(url) == IF NamesHost(url) THEN url
                   ELSE CleanKeepingSlash(Until(url, "?")) \o From(url, "?")

Init ==
  /\ at = "form"
  /\ \E n \in 0..MaxLength : form \in [1..n -> Alphabet]
  /\ redirect = form

\* The form is posted; what it asks for goes into the cookie session.
Post ==
  /\ at = "form" /\ at' = "session"
  /\ redirect' = localPath(redirect)
  /\ UNCHANGED form

\* The callback takes it out again.
Pop ==
  /\ at = "session" /\ at' = "popped"
  /\ redirect' = localPath(redirect)
  /\ UNCHANGED form

Redirect ==
  /\ at = "popped" /\ at' = "location"
  /\ redirect' = RedirectTo(IF redirect = <<>> THEN <<"/">> ELSE redirect)
  /\ UNCHANGED form

Next == Post \/ Pop \/ Redirect

Spec == Init /\ [][Next]_vars

----------------------------------------------------------------------------

\* Wherever a login form asks to end, the answer's Location is a path on this
\* site: it starts with one slash and no more, since browsers, other than
\* net/url, find a host after any number of them; and it has no character that a
\* browser reads differently.
LocationIsLocal ==
  at = "location" =>
    Rooted(redirect) /\ ~IsPrefix(<<"/", "/">>, redirect) /\ ~unsafeInPath(redirect)

\* The callback's pass over the redirect changes nothing: what the cookie session
\* keeps is a path that localPath accepts as it is.
SecondPassKeeps == [][Pop => redirect' = redirect]_vars

\* "What is checked is what is redirected to" (localPath's comment): http.Redirect
\* does not change the redirect that localPath returned.  It would clean the text
\* of a fragment too, as in "/#/.", so this is said of redirects without one.
CheckedIsRedirected ==
  [][Redirect /\ redirect # <<>> /\ Fragment(form) = <<>> => redirect' = redirect]_vars

\* The query the form asks for is kept to the end.
QueryIsKept ==
  at = "location" /\ localPath(form) # <<>> /\ Fragment(form) = <<>>
    => Query(redirect) = Query(form)

\* How many names there are from the i-th segment to the j-th, and how many "..".
IsName(seg) == seg \notin {<<>>, <<".">>, <<".", ".">>}
NamesIn(segs, i, j) == Cardinality({k \in i..j : IsName(segs[k])})
UpsIn(segs, i, j)   == Cardinality({k \in i..j : segs[k] = <<".", ".">>})

\* The segments that stay: the names that no later run of segments goes up past,
\* because in none are there as many ".." as names.
Kept(segs) == {i \in DOMAIN segs : /\ IsName(segs[i])
                                   /\ \A j \in i..Len(segs) : UpsIn(segs, i, j) < NamesIn(segs, i, j)}
Remaining(segs) ==
  [n \in 1..Cardinality(Kept(segs)) |->
     segs[CHOOSE i \in Kept(segs) : Cardinality({j \in Kept(segs) : j < i}) = n - 1]]

\* The path of the redirect has the segments of the form's path that stay, in their
\* order, and a slash at its end if the form's has one or no segment stays.
CleanIsLexical ==
  LET segs == Segments(Decode(BeforeQuery(form)))
      end  == IF Last(segs) = <<>> \/ Remaining(segs) = <<>> THEN <<<<>>>> ELSE <<>>
  IN at = "session" /\ redirect # <<>> =>
       Segments(Decode(BeforeQuery(redirect))) = <<<<>>>> \o Remaining(segs) \o end
============================================================================
