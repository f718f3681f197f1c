------------------------------ MODULE PageLog ------------------------------
(***************************************************************************)
(* What collection promises of the pages it commits: each directory holds  *)
(* a log of pages that only grows, one page at a time, along the           *)
(* Registry's cursor chain; a fresh log may adopt a prefix of another, or  *)
(* of the published one; and one complete log is published, once.          *)
(***************************************************************************)
EXTENDS Naturals, Sequences

CONSTANTS Dirs, Bodies, None,
    Found    \* directories whose pages were collected before logs were kept

VARIABLES log, published

vars == <<log, published>>

Init == log = [d \in Dirs |-> <<>>] /\ published = None

\* The page may follow the pages of chain.
Continues(chain, body) ==
    /\ chain # <<>> => chain[Len(chain)].next # None
    /\ \A i \in DOMAIN chain : chain[i].next # body.next

Extend(d) ==
    /\ \E body \in Bodies :
          /\ Continues(log[d], body)
          /\ log' = [log EXCEPT ![d] = Append(@, body)]
    /\ UNCHANGED published

\* The pages copied may be those of a log that was published meanwhile.
Adopt(d, source) ==
    /\ log[d] = <<>>
    /\ \E k \in 1..Len(source) : log' = [log EXCEPT ![d] = SubSeq(source, 1, k)]
    /\ UNCHANGED published

\* Pages found on disk become a log.
Recover(d) ==
    /\ d \in Found
    /\ log[d] = <<>>
    /\ log'[d] # <<>>
    /\ \A i \in 1..Len(log'[d]) : Continues(SubSeq(log'[d], 1, i - 1), log'[d][i])
    /\ log' = [log EXCEPT ![d] = log'[d]]
    /\ UNCHANGED published

\* The log moves to the destination.
Publish(d) ==
    /\ published = None
    /\ log[d] # <<>>
    /\ log[d][Len(log[d])].next = None
    /\ published' = log[d]
    /\ log' = [log EXCEPT ![d] = <<>>]

Next == \E d \in Dirs :
    \/ Extend(d) \/ Recover(d) \/ Publish(d)
    \/ \E e \in Dirs : Adopt(d, log[e])
    \/ published # None /\ Adopt(d, published)

Spec == Init /\ [][Next]_vars
=============================================================================
