---------------------------- MODULE FileProperties -----------------------------
(* What the reader of one file of a mount may count on. *)
EXTENDS FileAnswers

\* A reader that puts slices together is given slices of one body, the one its own url asks
\* for, unless the file is replaced while it reads or an answer made of an older file was
\* still held, or being worked out, when it began: that a held answer runs out between two
\* slices, that another reader asks for something else, or that each slice is worked out
\* anew changes nothing (query_file, serve_object, Asked::new).
SlicesAgree ==
  \A r \in Requests :
    reader[r].clean =>
      \A b, c \in reader[r].got : b = c /\ b.of \in {reader[r].url, File}

\* No answer that is still handed out, and none about to be, was made of a file replaced as
\* long ago as an answer is held and a request may take together: handing an answer out does
\* not make it newer, and working one out again does (Answers::get, Answers::insert).
NothingStaleForLong ==
  LET Recent(body) == \A v \in body.versions \ {version} : now - gone[v] < Ttl + Timeout
  IN  \A u \in Held : Expired(u) \/ Recent(held[u])

\* Every variable holds what it should, beside those of the cache.
FilesTypeOK ==
  /\ mount \in {"disk", "store"} /\ version \in Versions
  /\ gone \in [Versions -> Nat \cup {None}]
  /\ \A u \in Held : held[u] \in [of : {u}, versions : SUBSET Versions]
  /\ reader \in [Requests -> [url : Urls \cup {None}, clean : BOOLEAN,
                              got : SUBSET [of : Urls \cup {File}, versions : SUBSET Versions]]]
  /\ request \in [Requests -> [at : {"none", "asked", "looking", "missed", "read", "streamed", "file"},
                               began : Nat, seen : Versions, rows : Versions]]

\* This version of the file is there, or was until no earlier than this.
ThereAt(v, time) == v = version \/ (v < version /\ gone[v] >= time)

\* A request under way is one of a reader that reads something, has time left and has seen of
\* the file what was there since it began; it counts at the cache as long as it works an answer
\* out (query_file, the request deadline).
InTime ==
  /\ \A v \in Versions : v < version => gone[v] \in 0..now
  /\ \A r \in Requests :
       /\ working[r] = IF Querying(r) THEN reader[r].url ELSE None
       /\ ~At(r, {"none"}) =>
            /\ reader[r].url # None
            /\ request[r].began <= now /\ now <= request[r].began + Timeout
            /\ ThereAt(request[r].seen, request[r].began)
       /\ At(r, {"read"}) =>
            /\ request[r].seen <= request[r].rows
            /\ ThereAt(request[r].rows, request[r].began)

\* What is held was made of what was there a request's time before it was made.
MadeOfRecent ==
  \A u \in Held, v \in Versions :
    v \in held[u].versions =>
      v = version \/ (v < version /\ gone[v] + Timeout >= entries[u].made)

\* What a reader of this url is given for as long as the file holds still.
Promised(u) ==
  Body(IF u \in Plain \/ version \in Whole[u] THEN File ELSE u, {version})

\* A reader for whom the file has held still has been given that, and nothing is held or on the
\* way, its own request or another's, that would be anything else.
HoldsStill ==
  \A r \in Requests :
    LET u == reader[r].url
    IN  /\ u = None => reader[r].got = {} /\ At(r, {"none"})
        /\ u \in Plain => At(r, {"none", "file"})
        /\ u # None /\ reader[r].clean =>
             /\ reader[r].got \subseteq {Promised(u)}
             /\ u \in Held => held[u].versions = {version}
             /\ \A q \in Requests : Asking(q) /\ reader[q].url = u => request[q].seen = version
             /\ At(r, {"file"}) => u \in Plain \/ version \in Whole[u]
             /\ At(r, {"looking", "missed", "read", "streamed"}) => version \notin Whole[u]
             /\ ~At(r, {"none"}) => request[r].seen = version

\* The cache is in order, and what it holds, what requests have seen and what readers have been
\* given are of the versions of the file they may be of.
FilesInv == CacheInv /\ FilesTypeOK /\ InTime /\ MadeOfRecent /\ HoldsStill
================================================================================
