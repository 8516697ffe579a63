----------------------------- MODULE SerialQueue -----------------------------
(***************************************************************************)
(* What a Database promises the callers of read() and write(), with none   *)
(* of the machinery: the requests wait in line, one at a time is served,   *)
(* in the order of the line, each at most once; a request may be withdrawn *)
(* (a reset, a nested call) while it waits and is then never served.       *)
(***************************************************************************)
EXTENDS Naturals, Sequences

CONSTANTS Requests, Nobody

VARIABLES
  line,     \* the requests that wait, first come first
  serving,  \* the request being served, or Nobody
  settled   \* the requests served or withdrawn

svars == <<line, serving, settled>>

InLine == {line[i] : i \in 1..Len(line)}
Fresh(r) == r \notin InLine \cup {serving} \cup settled

SInit == line = <<>> /\ serving = Nobody /\ settled = {}

Request(r) ==
  /\ Fresh(r)
  /\ line' = Append(line, r)
  /\ UNCHANGED <<serving, settled>>

\* Nobody is ahead of r, which is served in the call that requests it.
ServeAtOnce(r) ==
  /\ Fresh(r) /\ line = <<>> /\ serving = Nobody
  /\ serving' = r
  /\ UNCHANGED <<line, settled>>

ServeFirst ==
  /\ serving = Nobody /\ line # <<>>
  /\ serving' = Head(line)
  /\ line' = Tail(line)
  /\ UNCHANGED settled

Complete ==
  /\ serving # Nobody
  /\ settled' = settled \cup {serving}
  /\ serving' = Nobody
  /\ UNCHANGED line

WithdrawOne ==
  /\ \E i \in 1..Len(line) :
       /\ line' = SubSeq(line, 1, i - 1) \o SubSeq(line, i + 1, Len(line))
       /\ settled' = settled \cup {line[i]}
  /\ UNCHANGED serving

\* Everybody in line, except possibly the first, is sent away.
WithdrawAfter(n) ==
  /\ n <= Len(line)
  /\ line' = SubSeq(line, 1, n)
  /\ settled' = settled \cup {line[i] : i \in (n + 1)..Len(line)}
  /\ UNCHANGED serving

SNext ==
  \/ \E r \in Requests : Request(r) \/ ServeAtOnce(r)
  \/ ServeFirst
  \/ Complete
  \/ WithdrawOne
  \/ \E n \in {0, 1} : WithdrawAfter(n)

Service == SInit /\ [][SNext]_svars

\* The line moves: whoever is first is served, whoever is served completes.
FairService == Service /\ WF_svars(ServeFirst) /\ WF_svars(Complete)
=============================================================================
