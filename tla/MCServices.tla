----------------------------- MODULE MCServices -----------------------------
(***************************************************************************)
(* An instance for TLC of the parts of the relay that share no variable    *)
(* with the rooms nor with one another: the snapshot writer, the           *)
(* connection quota, the message limiter, the log store and the resolution *)
(* of addresses.  A part takes steps only while the others are as they     *)
(* started, so that their states add up and do not multiply.  No part      *)
(* reads what another writes: every behaviour of a part is one of these.   *)
(***************************************************************************)
EXTENDS Persistence, ConnectionQuota, TokenBucket, LogStore, ClientIp

CONSTANTS Ours, Theirs   \* the network of the proxies, and of everyone else

\* One connection comes from another address than the rest.
SocketsApart ==
  LET i == CHOOSE i \in Ips : TRUE
      lone == CHOOSE s \in Sockets : TRUE
  IN  [s \in Sockets |-> IF s = lone THEN i ELSE CHOOSE j \in Ips : j # i]

UploadsTogether == [u \in Uploads |-> CHOOSE a \in Addresses : TRUE]
-----------------------------------------------------------------------------
(* Headers and settings *)

V4(net) == [kind |-> "v4", net |-> net, host |-> 0]
V6(net, host) == [kind |-> "v6", net |-> net, host |-> host]

TwoNets == {Ours, Theirs}

\* Values of one or two elements, and some of three; two are over the limit.
SomeElements ==
  {V4(Ours), V4(Theirs), [V4(Ours) EXCEPT !.kind = "mapped"], V6(Theirs, 1), V6(Ours, 1), Malformed}
Some(n) == [1 .. n -> SomeElements]
Value(s, bytes) == [elements |-> s, bytes |-> bytes]
Single == {Value(s, 1) : s \in Some(1)}
Short == Single \cup {Value(s, 1) : s \in Some(2)}
Long ==
  {Value(s, 1) : s \in [1 .. 3 -> {V4(Ours), V4(Theirs), Malformed}]}
    \cup {Value(<<V4(Theirs)>>, 2), Value(<<V4(Ours)>>, 3)}

SomeHeaders ==
  {<<>>, <<Undecodable>>}
    \cup {<<a>> : a \in Short \cup Long}
    \cup {<<a, b>> : a \in Single, b \in Short}
    \cup {<<a, Undecodable, b>> : a \in Single, b \in Long}

\* Nothing; every IPv4 address of ours and one IPv6 address; and a list with a
\* malformed entry.
SomeSettings ==
  {<<>>, <<{V4(Ours)}, {V6(Ours, 1)}>>, <<{V4(Ours)}, Malformed>>}
-----------------------------------------------------------------------------
(* The parts, one at a time *)

\* One of the requests whose address is to be resolved.
NoHeader ==
  /\ pc = "start" /\ forwarded_for = <<>> /\ setting = <<>>
  /\ peer = CHOOSE a \in IpAddrs : TRUE

WriterRests == Init /\ UNCHANGED vars
QuotaRests == QuotaInit /\ UNCHANGED quotaVars
BucketRests == BucketInit /\ UNCHANGED bucketVars
LogRests == LogInit /\ UNCHANGED logVars
IpRests == NoHeader /\ UNCHANGED ipVars

ServicesInit == Init /\ QuotaInit /\ BucketInit /\ LogInit /\ IpInit

ServicesNext ==
  \/ QuotaRests /\ BucketRests /\ LogRests /\ IpRests /\ Next
  \/ WriterRests /\ QuotaRests /\ BucketRests /\ IpRests /\ LogNext
  \/ WriterRests /\ BucketRests /\ LogRests /\ IpRests /\ QuotaNext
  \/ WriterRests /\ QuotaRests /\ LogRests /\ IpRests /\ BucketNext
  \/ WriterRests /\ QuotaRests /\ BucketRests /\ LogRests /\ IpNext

services == <<vars, quotaVars, bucketVars, logVars, ipVars>>

\* An upload was made: of the parts, it is the log store that runs.
Uploading == \E u \in Uploads : post[u].pc # "new"

\* The fairness of Persistence, whose actions are disabled while the writer is
\* as it started, and that of LogStore from the first upload on.
Services ==
  /\ ServicesInit /\ [][ServicesNext]_services
  /\ Fairness
  /\ WF_logVars(Uploading /\ Tick)
  /\ WF_logVars(Uploading /\ SweepStarts)
  /\ WF_logVars(Uploading /\ SweepLogs)
=============================================================================
