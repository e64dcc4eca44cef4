--------------------------- MODULE MCReplyMonitor ---------------------------
(* Small instances of ReplyMonitor for TLC. *)
EXTENDS ReplyMonitor, TLC

CONSTANTS c1, c2, t1, t2, a, b, c, d, e

\* Both rows refer to the first thread, an issue; the second also to a discussion
\* of our own.
InOrder == <<c1, c2>>
TwoRows == (c1 :> <<t1>>) @@ (c2 :> <<t1, t2>>)
Asked == (c1 :> "sent") @@ (c2 :> "silent")

\* On the issue a comment of a maintainer (a), a closing (b) and a merge (c); on
\* the discussion a closing (d) and a reopening (e).
OnThreads == [p \in Posts |-> IF p \in {d, e} THEN t2 ELSE t1]
Answers == [p \in Posts |-> "maintainer"]
Kinds == [p \in Posts |-> CASE p = a -> "comment" [] p \in {b, d} -> "closed"
                            [] p = c -> "merged" [] p = e -> "reopened"]
=============================================================================
