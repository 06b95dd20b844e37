------------------------------ MODULE FileAnswers ------------------------------
(***************************************************************************)
(* One data file of a mount and the readers that take it apart: each opens *)
(* one url, sends request after request for slices of what it answers, and *)
(* puts the slices together.  Meanwhile the file may be replaced.          *)
(*                                                                         *)
(* A url is the file itself, a query about it, or a query asked to be      *)
(* streamed.  A body is named by what it is of and by the versions of the  *)
(* file that went into it: a query reads the footer and then the rows, a   *)
(* store answers for an object's length and then for its bytes.  The       *)
(* answers to queries are held by AnswerCache.  Validators, ranges that    *)
(* cannot be met and the text formats, which are answered whole and are    *)
(* never held, are left out.                                               *)
(***************************************************************************)
EXTENDS AnswerCache

CONSTANTS
  Plain,        \* the urls with no question in them
  Streaming,    \* the urls that ask for the rows as they are read
  Whole,        \* the versions of the file that are the answer to each url
  Timeout,      \* how long a request may take
  LastVersion,  \* bound: how often the file is replaced
  File          \* what a body that is the file's own bytes is of

Versions == 0..LastVersion

ASSUME FilesAssumption ==
  /\ Plain \subseteq Urls /\ Streaming \subseteq Urls
  /\ Plain \cap Streaming = {}
  /\ Whole \in [Urls -> SUBSET Versions]
  /\ {Timeout, LastVersion} \subseteq Nat
  /\ File \notin Urls

VARIABLES
  mount,     \* whether the file is on this machine's disk or in a store
  version,   \* the version of the file that is there
  gone,      \* when each version was replaced
  held,      \* the body of each answer the cache holds
  reader,    \* what each reader reads, whether the file may be taken to hold still for it,
             \* and the bodies it has had slices of while it did
  request    \* how far the one request of each reader is

fvars == <<vars, mount, version, gone, held, reader, request>>

NoReader  == [url |-> None, got |-> {}, clean |-> TRUE]
NoRequest == [at |-> "none", began |-> 0, seen |-> 0, rows |-> 0]

Body(of, versions) == [of |-> of, versions |-> versions]

\* Mutant of Key: the query string is left out of the name an answer is held under.
KeyOfPath(u) == CHOOSE v \in Urls : TRUE

\* Asked::new: the path and the query string.
Key(u) == u

At(r, places) == request[r].at \in places
\* The request has the footer and no answer yet; and its lookup has found nothing.
Asking(r) == At(r, {"looking", "missed", "read"})
Querying(r) == At(r, {"missed", "read"})

\* What the cache holds after a step of it that dropped or replaced answers.
HeldBodies(changed) ==
  held' = [u \in Urls |-> IF entries'[u] = None THEN None
                          ELSE IF u \in DOMAIN changed THEN changed[u] ELSE held[u]]

-----------------------------------------------------------------------------
(* A reader and its requests.                                              *)

\* An older body of this url is held, or another request is working one out.
OlderAbout(r, u) ==
  \/ u \in Held /\ held[u].versions # {version}
  \/ \E q \in Requests \ {r} : Asking(q) /\ reader[q].url = u /\ request[q].seen # version

\* A reader opens a url, or asks for its next slice.  On a store the object is looked up.
Ask(r, u) ==
  /\ At(r, {"none"})
  /\ reader[r].url \in {None, u}
  /\ reader' = IF reader[r].url = u THEN reader
               ELSE [reader EXCEPT ![r] = [url |-> u, got |-> {}, clean |-> ~OlderAbout(r, u)]]
  /\ request' = [request EXCEPT ![r] =
                   [at |-> IF u \in Plain THEN "file" ELSE "asked",
                    began |-> now, seen |-> version, rows |-> 0]]
  /\ UNCHANGED <<vars, mount, version, gone, held>>

\* The footer is read, and shows whether the answer is the file itself.
ReadFooter(r) ==
  LET u == reader[r].url
      next == IF version \in Whole[u] THEN "file"
              ELSE IF u \in Streaming THEN "streamed" ELSE "looking"
  IN  /\ At(r, {"asked"})
      /\ request' = [request EXCEPT ![r] =
                       [@ EXCEPT !.at = next,
                                 !.seen = IF next = "file" THEN request[r].seen ELSE version]]
      /\ UNCHANGED <<vars, mount, version, gone, held, reader>>

\* The request is answered with a slice of this body.
Answered(r, body) ==
  /\ reader' = [reader EXCEPT ![r].got = IF reader[r].clean THEN @ \cup {body} ELSE {}]
  /\ request' = [request EXCEPT ![r] = NoRequest]

AnswerHeld(r) ==
  /\ At(r, {"looking"})
  /\ Hit(Key(reader[r].url))
  /\ Answered(r, held[Key(reader[r].url)])
  /\ HeldBodies(<<>>)
  /\ UNCHANGED <<mount, version, gone>>

FindNothing(r) ==
  /\ At(r, {"looking"})
  /\ Miss(r, Key(reader[r].url))
  /\ request' = [request EXCEPT ![r].at = "missed"]
  /\ HeldBodies(<<>>)
  /\ UNCHANGED <<mount, version, gone, reader>>

ReadRows(r) ==
  /\ At(r, {"missed"})
  /\ request' = [request EXCEPT ![r] = [@ EXCEPT !.at = "read", !.rows = version]]
  /\ UNCHANGED <<vars, mount, version, gone, held, reader>>

\* The answer is encoded, kept and a slice of it sent.
AnswerQuery(r, size) ==
  LET body == Body(reader[r].url, {request[r].seen, request[r].rows})
  IN  /\ At(r, {"read"})
      /\ Answered(r, body)
      /\ Insert(r, size)
      /\ HeldBodies(IF On /\ size <= Capacity THEN [u \in {working[r]} |-> body] ELSE <<>>)
      /\ UNCHANGED <<mount, version, gone>>

\* Rows that are streamed are neither held nor answered from what is.
AnswerStreamed(r) ==
  /\ At(r, {"streamed"})
  /\ Answered(r, Body(reader[r].url, {request[r].seen, version}))
  /\ UNCHANGED <<vars, mount, version, gone, held>>

\* On disk one open file is both the length and the bytes; a store is asked for each.
AnswerFile(r) ==
  /\ At(r, {"file"})
  /\ Answered(r, Body(File, {version} \cup IF mount = "store" THEN {request[r].seen} ELSE {}))
  /\ UNCHANGED <<vars, mount, version, gone, held>>

\* A request fails, is refused (a range of a streamed answer is), is given up by its reader
\* or runs out of time.
EndRequest(r) ==
  /\ ~At(r, {"none"})
  /\ request' = [request EXCEPT ![r] = NoRequest]
  /\ IF Querying(r) THEN Fail(r) ELSE UNCHANGED vars
  /\ UNCHANGED <<mount, version, gone, held, reader>>

Close(r) ==
  /\ At(r, {"none"})
  /\ reader[r].url # None
  /\ reader' = [reader EXCEPT ![r] = NoReader]
  /\ UNCHANGED <<vars, mount, version, gone, held, request>>

-----------------------------------------------------------------------------
\* The file is replaced, under whoever is reading it.
Replace ==
  /\ version < LastVersion
  /\ version' = version + 1
  /\ gone' = [gone EXCEPT ![version] = now]
  /\ reader' = [r \in Requests |->
                  IF reader[r].url = None THEN reader[r]
                  ELSE [reader[r] EXCEPT !.clean = FALSE, !.got = {}]]
  /\ UNCHANGED <<vars, mount, held, request>>

\* No request outlives its time.
TimePasses ==
  /\ \A r \in Requests : At(r, {"none"}) \/ now < request[r].began + Timeout
  /\ Tick
  /\ UNCHANGED <<mount, version, gone, held, reader, request>>

FilesInit ==
  /\ Init
  /\ mount \in {"disk", "store"}
  /\ version = 0
  /\ gone = [v \in Versions |-> None]
  /\ held = [u \in Urls |-> None]
  /\ reader = [r \in Requests |-> NoReader]
  /\ request = [r \in Requests |-> NoRequest]

FilesNext ==
  \/ \E r \in Requests, u \in Urls : Ask(r, u)
  \/ \E r \in Requests :
       \/ ReadFooter(r) \/ AnswerHeld(r) \/ FindNothing(r) \/ ReadRows(r)
       \/ AnswerStreamed(r) \/ AnswerFile(r) \/ EndRequest(r) \/ Close(r)
  \/ \E r \in Requests, size \in Sizes : AnswerQuery(r, size)
  \/ Replace
  \/ TimePasses

FilesSpec == FilesInit /\ [][FilesNext]_fvars
=============================================================================
