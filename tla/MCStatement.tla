------------------------------- MODULE MCStatement -------------------------------
(* Every driver and format over up to five rows, and every way of bringing two tables. *)
EXTENDS StatementProperties, TLC

Table0 ==
  [how |-> "schema", kind |-> "unsaid", media |-> "unsaid", bytes |-> "absent", size |-> 0,
   listed |-> FALSE, slash |-> FALSE, web |-> FALSE, site |-> "none", options |-> "none",
   list |-> NoList, named |-> TRUE]

Inline(kind, media, bytes, size) ==
  [Table0 EXCEPT !.how = "inline", !.kind = kind, !.media = media, !.bytes = bytes, !.size = size]
At(site, options, list, t) == [t EXCEPT !.site = site, !.options = options, !.list = list]
Url(kind, bytes, size) ==
  [Table0 EXCEPT !.how = "url", !.kind = kind, !.bytes = bytes, !.size = size]
Published == At("s", "k", "m", [Table0 EXCEPT !.how = "published"])
Unnamed(t) == [t EXCEPT !.named = FALSE]

\* What a request brings or names, at an authority two mounts with two lists may share.
SomeTables ==
  {Inline("unsaid", "unsaid", "votable", 2), Inline("unsaid", "parquet", "other", 1),
   Inline("unsaid", "unsaid", "other", 1), Inline("hats", "unsaid", "other", 1),
   Unnamed(Inline("votable", "unsaid", "votable", 1)), Published}
  \cup {At("s", o, "n", t) : o \in {"k", "l"}, t \in {
          Url("unsaid", "votable", 2), Url("votable", "votable", 3),
          Url("unsaid", "absent", 0), [Url("unsaid", "other", 1) EXCEPT !.web = TRUE],
          Url("unsaid", "other", 1), Url("parquet", "parquet", 1),
          [Url("unsaid", "parquet", 1) EXCEPT !.listed = TRUE],
          [Url("unsaid", "absent", 0) EXCEPT !.slash = TRUE]}}
  \cup {At("r", "l", "n", Url("hats", "absent", 0))}

\* What `/adql` declares: by url, and of a kind.
Declared ==
  {t \in SomeTables : t.how = "url" /\ t.kind # "unsaid"}
    \cup {At("s", o, "n", [Url("parquet", "parquet", 1) EXCEPT !.listed = TRUE, !.named = b])
            : o \in {"k", "l"}, b \in BOOLEAN}

Formats(driver) == {"votable", "dsv", "parquet"} \cup (IF driver = "adql" THEN {"json"} ELSE {})

Ask(driver, format, columns, maxrec, rows, asked) ==
  [driver |-> driver, format |-> format, columns |-> columns, maxrec |-> maxrec,
   rows |-> rows, tables |-> asked]

OfRows ==
  UNION {{Ask(d, f, c, m, n, <<Table0>>) :
            f \in Formats(d), c \in {"flat", "strings", "struct"},
            m \in {NoMaxrec, 0, 2, 4}, n \in 0..5} : d \in {"sync", "stream", "job"}}
  \cup {Ask("adql", f, c, NoMaxrec, n, <<>>) :
          f \in Formats("adql"), c \in {"flat", "strings", "struct"}, n \in 0..5}

OfTables ==
  {Ask("sync", "dsv", "flat", NoMaxrec, 1, <<s, t>>) : s \in SomeTables, t \in SomeTables}
  \cup {Ask("adql", "json", "flat", NoMaxrec, 1, <<s, t>>) : s \in Declared, t \in Declared}

SomeRequests == OfRows \cup OfTables
===================================================================================
