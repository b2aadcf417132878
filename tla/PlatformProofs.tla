--------------------------- MODULE PlatformProofs ----------------------------
(***************************************************************************)
(* The gateway's side of the platform: the requests the platform sends it, *)
(* and the connection they come over.                                      *)
(*                                                                         *)
(* RPC: for any requests, devices and changes of the environment, the      *)
(* replies to a request, and the entry that waits for its answer.  The     *)
(* argument is about sets: where a request is (in a queue, held by the     *)
(* RPC thread, being registered, in progress, in the watcher's copy, sent  *)
(* to its device) and which replies it got.                                *)
(*                                                                         *)
(* The connection: for any number of lost connections, deaths of the       *)
(* network loop and refused attempts, the start-up thread and the          *)
(* supervisor never drive it both, and stop() is final for the supervisor. *)
(* Flags and places are typed apart: the former are Zenon's, the latter,   *)
(* with the counters, are the SMT solver's.                                *)
(***************************************************************************)
EXTENDS RpcProcessing, TBClient, TLAPS, SequenceTheorems, FiniteSetTheorems

-----------------------------------------------------------------------------
(* RPC                                                                     *)

Queued == ElementsOf(queue)
Held == IF rpcThread \in {"found", "dead"} THEN {request} ELSE {}
Waiting == IF rpcThread = "waiting" THEN {request} ELSE {}
Registering == ElementsOf(registerQueue)
InProgress == ElementsOf(table)
Copied == IF watcher = "copied" THEN ElementsOf(copy) ELSE {}
Cancelling == IF watcher = "cancelled" THEN ElementsOf(copy) ELSE {}

SaidTo(r, kind) == <<r, kind>> \in ElementsOf(replied)
Cancelled == {r \in Requests : SaidTo(r, "cancel")}
Answered == {r \in Requests : SaidTo(r, "answer")}
Ended == {r \in Requests : SaidTo(r, "timeout") \/ SaidTo(r, "ack") \/ SaidTo(r, "gateway")}
Active == Waiting \cup Registering \cup InProgress \cup Copied \cup published \cup Cancelled

\* The variables' types, with no request twice in a queue, no key twice in a
\* dictionary and no reply twice, and threads at a request when they say so.
QueueOK ==
    /\ queue \in Seq(Requests) /\ Distinct(queue)
    /\ late \subseteq Requests
    /\ scheduled \in Seq(Requests)
    /\ received \subseteq Requests

DictionaryOK ==
    /\ registerQueue \in Seq(TwoWay) /\ Distinct(registerQueue)
    /\ table \in Seq(TwoWay) /\ Distinct(table)
    /\ copy \in Seq(TwoWay) /\ (watcher = "copied" => Distinct(copy))
    /\ watcher = "cancelled" => Len(copy) = 1
    /\ marked \subseteq ElementsOf(table)
    /\ overdue \subseteq TwoWay
    /\ answered \subseteq published /\ published \subseteq TwoWay

ReplyOK ==
    /\ replies \in Seq(Requests \X Kinds)
    /\ replied \in Seq(Requests \X Kinds) /\ Distinct(replied)
    /\ rpcReplySent => replies # <<>>

ThreadOK ==
    /\ rpcThread \in {"idle", "found", "waiting", "dead"}
    /\ request \in Requests \cup {NoRequest}
    /\ rpcThread # "idle" => request \in Requests
    /\ rpcThread = "waiting" => request \in TwoWay
    /\ watcher \in {"idle", "calls", "scan", "cancelled", "copied"}
    /\ scanned \in Nat /\ scanSize \in Nat
    /\ messageThread \in {"idle", "popping", "dead"}
    /\ answering \in TwoWay \cup {NoRequest}
    /\ devices \in [Devices -> {"absent", "bare", "served"}]
    /\ changes \in 0 .. MaxChanges

FlagOK == rpcReplySent \in BOOLEAN /\ connected \in BOOLEAN

Structure == QueueOK /\ DictionaryOK /\ ReplyOK /\ ThreadOK /\ FlagOK

\* A request passes one phase after the other.
OnePhase ==
    /\ Queued \cup Held \cup Active \cup Ended \subseteq received
    /\ Queued \cap (Held \cup Active \cup Ended) = {}
    /\ Held \cap (Active \cup Ended) = {}
    /\ Active \cap Ended = {}
    /\ Registering \cap (InProgress \cup Copied \cup published \cup Cancelled) = {}
    /\ Answered \subseteq answered

\* What was cancelled is "del" until it has left the dictionary.
CancelledIsMarked ==
    /\ Cancelling \subseteq Cancelled \cap overdue
    /\ InProgress \cap Cancelled \subseteq marked \cup Cancelling
    /\ Copied \cap Cancelled = {}

\* What is neither overdue nor answered stays in the dictionary and in its copies.
NotOverdueStays ==
    /\ published \ (overdue \cup answered) \subseteq InProgress
    /\ Waiting \subseteq (Registering \cup InProgress \cup overdue) \ published
    /\ marked \subseteq overdue
    /\ watcher = "copied" => InProgress \subseteq Copied \cup overdue
    /\ messageThread = "popping" => answering \in answered

Phases == OnePhase /\ CancelledIsMarked /\ NotOverdueStays
IInv == Structure /\ Phases

USE RpcAssumption DEF RpcAssumption

-----------------------------------------------------------------------------
(* Sequences without repetition.                                            *)
LEMMA OfAppend ==
    ASSUME NEW S, NEW s \in Seq(S), NEW e \in S
    PROVE  /\ Append(s, e) \in Seq(S)
           /\ ElementsOf(Append(s, e)) = ElementsOf(s) \cup {e}
           /\ Distinct(s) /\ e \notin ElementsOf(s) => Distinct(Append(s, e))
  <1> DEFINE t == Append(s, e)
  <1>1. /\ t \in Seq(S) /\ Len(s) \in Nat /\ Len(t) = Len(s) + 1
        /\ t[Len(s) + 1] = e /\ \A k \in 1..Len(s) : t[k] = s[k]
    BY AppendProperties, LenProperties
  <1>2. DOMAIN t = 1..Len(t) /\ DOMAIN s = 1..Len(s)
    BY <1>1, LenProperties
  <1> HIDE DEF t
  <1>3. \A k \in DOMAIN s : k \in DOMAIN t /\ t[k] = s[k]
    BY <1>1, <1>2
  <1>4. \A k \in DOMAIN t : k \in DOMAIN s \/ k = Len(s) + 1
    BY <1>1, <1>2
  <1>5. Len(s) + 1 \in DOMAIN t /\ t[Len(s) + 1] = e
    BY <1>1, <1>2
  <1>6. ElementsOf(t) = ElementsOf(s) \cup {e}
    BY <1>3, <1>4, <1>5 DEF ElementsOf
  <1>7. ASSUME Distinct(s), e \notin ElementsOf(s), NEW k \in DOMAIN t, NEW l \in DOMAIN t, t[k] = t[l]
        PROVE  k = l
    <2>1. \A m \in DOMAIN s : s[m] # e
      BY <1>7 DEF ElementsOf
    <2>2. QED
      BY <1>3, <1>4, <1>5, <1>7, <2>1 DEF Distinct
  <1>8. Distinct(s) /\ e \notin ElementsOf(s) => Distinct(t)
    BY <1>7 DEF Distinct
  <1>9. QED
    BY <1>1, <1>6, <1>8 DEF t

LEMMA OfTail ==
    ASSUME NEW S, NEW s \in Seq(S), s # <<>>, Distinct(s)
    PROVE  /\ Head(s) \in S /\ Head(s) \in ElementsOf(s)
           /\ Tail(s) \in Seq(S)
           /\ ElementsOf(Tail(s)) = ElementsOf(s) \ {Head(s)}
           /\ Distinct(Tail(s))
  <1> DEFINE t == Tail(s)
  <1>1. /\ t \in Seq(S) /\ Head(s) \in S /\ Len(t) = Len(s) - 1
        /\ \A k \in 1..Len(t) : t[k] = s[k + 1]
    BY HeadTailProperties
  <1>2. Len(s) \in Nat /\ Len(s) > 0 /\ Head(s) = s[1]
    BY LenProperties, EmptySeq
  <1>3. DOMAIN t = 1..Len(t) /\ DOMAIN s = 1..Len(s)
    BY <1>1, LenProperties
  <1> HIDE DEF t
  <1>4. \A k \in DOMAIN t : k \in Int /\ k + 1 \in DOMAIN s /\ k + 1 # 1 /\ t[k] = s[k + 1]
    BY <1>1, <1>2, <1>3
  <1>5. 1 \in DOMAIN s
    BY <1>2, <1>3
  <1>6. ASSUME NEW k \in DOMAIN s, k # 1 PROVE k - 1 \in DOMAIN t /\ t[k - 1] = s[k]
    <2>1. k - 1 \in DOMAIN t /\ (k - 1) + 1 = k
      BY <1>1, <1>2, <1>3, <1>6
    <2>2. QED
      BY <1>4, <2>1
  <1>7. ElementsOf(t) \subseteq ElementsOf(s) \ {s[1]}
    BY <1>4, <1>5 DEF ElementsOf, Distinct
  <1>8. ElementsOf(s) \ {s[1]} \subseteq ElementsOf(t)
    BY <1>6 DEF ElementsOf
  <1>9. Distinct(t)
    <2> SUFFICES ASSUME NEW k \in DOMAIN t, NEW l \in DOMAIN t, t[k] = t[l] PROVE k = l
      BY DEF Distinct
    <2>1. k + 1 = l + 1
      BY <1>4 DEF Distinct
    <2>2. QED
      BY <1>4, <2>1
  <1>10. s[1] \in ElementsOf(s)
    BY <1>5 DEF ElementsOf
  <1>11. QED
    BY <1>1, <1>2, <1>7, <1>8, <1>9, <1>10 DEF t

LEMMA OfWithout ==
    ASSUME NEW S, NEW s \in Seq(S), NEW X, Distinct(s),
           NEW t \in Shortened(s), IsWithout(t, s, X)
    PROVE  t \in Seq(S) /\ ElementsOf(t) = ElementsOf(s) \ X /\ Distinct(t)
  <1>1. PICK n \in 0..Len(s) : t \in [1..n -> ElementsOf(s)]
    BY DEF Shortened
  <1>2. ElementsOf(s) \subseteq S /\ Len(s) \in Nat
    BY LenProperties DEF ElementsOf
  <1>3. n \in Nat /\ DOMAIN t = 1..n /\ t \in [1..n -> S]
    BY <1>1, <1>2
  <1>4. t \in Seq(S)
    BY <1>3, SeqDef
  <1>5. DOMAIN s = 1..Len(s)
    BY LenProperties
  <1>6. ASSUME NEW i \in DOMAIN t, NEW j \in DOMAIN t, i < j PROVE t[i] # t[j]
    <2>1. PICK k \in DOMAIN s, l \in DOMAIN s : k < l /\ t[i] = s[k] /\ t[j] = s[l]
      BY <1>6 DEF IsWithout
    <2>2. k # l
      BY <1>2, <1>5, <2>1
    <2>3. QED
      BY <2>1, <2>2 DEF Distinct
  <1>7. \A i, j \in DOMAIN t : i < j \/ j < i \/ i = j
    BY <1>3
  <1>8. Distinct(t)
    BY <1>6, <1>7 DEF Distinct
  <1>9. QED
    BY <1>4, <1>8 DEF IsWithout

(* The first entry goes to the end: Requeue.                                *)
LEMMA OfRotation ==
    ASSUME NEW S, NEW s \in Seq(S), s # <<>>, Distinct(s)
    PROVE  /\ Append(Tail(s), Head(s)) \in Seq(S)
           /\ ElementsOf(Append(Tail(s), Head(s))) = ElementsOf(s)
           /\ Distinct(Append(Tail(s), Head(s)))
  <1> DEFINE t == Tail(s)
             e == Head(s)
  <1>1. /\ t \in Seq(S) /\ e \in S /\ e \in ElementsOf(s)
        /\ ElementsOf(t) = ElementsOf(s) \ {e} /\ Distinct(t)
    BY OfTail
  <1> HIDE DEF t, e
  <1>2. e \notin ElementsOf(t) /\ ElementsOf(t) \cup {e} = ElementsOf(s)
    BY <1>1
  <1>3. /\ Append(t, e) \in Seq(S)
        /\ ElementsOf(Append(t, e)) = ElementsOf(s)
        /\ Distinct(Append(t, e))
    <2>1. /\ Append(t, e) \in Seq(S)
          /\ ElementsOf(Append(t, e)) = ElementsOf(t) \cup {e}
          /\ Distinct(t) /\ e \notin ElementsOf(t) => Distinct(Append(t, e))
      BY <1>1, OfAppend
    <2>2. QED
      BY <1>1, <1>2, <2>1, Zenon
  <1>4. QED
    BY <1>3 DEF t, e

LEMMA OfEmpty == Distinct(<<>>) /\ ElementsOf(<<>>) = {}
  BY DEF Distinct, ElementsOf

LEMMA ElementsIn ==
    ASSUME NEW S, NEW s \in Seq(S)
    PROVE  ElementsOf(s) \subseteq S /\ \A k \in 1..Len(s) : s[k] \in ElementsOf(s)
  BY LenProperties DEF ElementsOf

(* A reply that was not given occurs no time, and any one at most once.     *)
LEMMA RepliesCounted ==
    ASSUME NEW r, NEW kind, replied \in Seq(Requests \X Kinds), Distinct(replied)
    PROVE  RepliesTo(r, kind) = IF SaidTo(r, kind) THEN 1 ELSE 0
  <1> DEFINE K == {k \in DOMAIN replied : replied[k] = <<r, kind>>}
  <1>1. CASE SaidTo(r, kind)
    <2>1. PICK k \in DOMAIN replied : replied[k] = <<r, kind>>
      BY <1>1 DEF SaidTo, ElementsOf
    <2>2. K = {k}
      BY <2>1 DEF Distinct
    <2>3. QED
      BY <1>1, <2>2, FS_Singleton DEF RepliesTo
  <1>2. CASE ~SaidTo(r, kind)
    <2>1. K = {}
      BY <1>2 DEF SaidTo, ElementsOf
    <2>2. QED
      BY <1>2, <2>1, FS_EmptySet DEF RepliesTo
  <1>3. QED
    BY <1>1, <1>2

-----------------------------------------------------------------------------
LEMMA IInvImplies == IInv => RepliesBounded /\ AnswerIsExpected
  <1> SUFFICES ASSUME IInv PROVE RepliesBounded /\ AnswerIsExpected
    OBVIOUS
  <1> USE DEF IInv, Phases
  <1>0. RpcTypeOK
    <2>1. QueueOK /\ DictionaryOK /\ ReplyOK /\ ThreadOK /\ FlagOK
      BY DEF Structure
    <2>2. QED
      BY <2>1, Zenon DEF QueueOK, DictionaryOK, ReplyOK, ThreadOK, FlagOK, RpcTypeOK
  <1>1. \A r, kind : RepliesTo(r, kind) = IF SaidTo(r, kind) THEN 1 ELSE 0
    BY RepliesCounted DEF Structure, ReplyOK
  <1>2. ASSUME NEW r \in Requests, RepliesTo(r, "timeout") + RepliesTo(r, "ack") = 1
        PROVE  RepliesTo(r, "cancel") + RepliesTo(r, "answer") = 0
    <2>1. SaidTo(r, "timeout") \/ SaidTo(r, "ack")
      BY <1>1, <1>2
    <2>2. r \in Ended
      BY <2>1 DEF Ended
    <2>3. r \notin Cancelled /\ r \notin published
      BY <2>2 DEF OnePhase, Active
    <2>4. r \notin Answered
      BY <1>0, <2>3 DEF OnePhase, RpcTypeOK
    <2>5. ~SaidTo(r, "cancel") /\ ~SaidTo(r, "answer")
      BY <2>3, <2>4 DEF Cancelled, Answered
    <2>6. QED
      BY <1>1, <2>5
  <1>3. RepliesBounded
    <2>1. \A r \in Requests, kind \in Kinds : RepliesTo(r, kind) <= 1
      BY <1>1
    <2>2. QED
      BY <1>0, <1>2, <2>1 DEF RepliesBounded
  <1>4. \A r \in published \ (overdue \cup answered) : r \in ElementsOf(table)
    BY DEF NotOverdueStays, InProgress
  <1>5. rpcThread = "waiting" => request \in UNION {ElementsOf(registerQueue), ElementsOf(table), overdue}
    <2>1. rpcThread = "waiting" => request \in Registering \cup InProgress \cup overdue
      BY DEF NotOverdueStays, Waiting
    <2>2. UNION {ElementsOf(registerQueue), ElementsOf(table), overdue} = Registering \cup InProgress \cup overdue
      BY DEF Registering, InProgress
    <2>3. QED
      BY <2>1, <2>2
  <1>6. QED
    BY <1>3, <1>4, <1>5 DEF AnswerIsExpected

LEMMA InitIInv == Init => IInv
  <1> SUFFICES ASSUME Init PROVE IInv
    OBVIOUS
  <1>1. \A S : <<>> \in Seq(S)
    BY EmptySeq
  <1>2. Structure
    <2>1. FlagOK
      BY Zenon DEF Init, FlagOK
    <2>2. QueueOK /\ DictionaryOK /\ ReplyOK /\ ThreadOK
      BY OfEmpty, <1>1 DEF Init, QueueOK, DictionaryOK, ReplyOK, ThreadOK
    <2>3. QED
      BY <2>1, <2>2 DEF Structure
  <1>3. /\ Queued = {} /\ Held = {} /\ Waiting = {} /\ Registering = {} /\ InProgress = {}
        /\ Copied = {} /\ Cancelling = {} /\ Cancelled = {} /\ Answered = {} /\ Ended = {}
    BY OfEmpty
       DEF Init, Queued, Held, Waiting, Registering, InProgress, Copied, Cancelling,
           Cancelled, Answered, Ended, SaidTo
  <1>4. Active = {}
    BY <1>3 DEF Active, Init
  <1>5. Phases
    BY <1>3, <1>4 DEF Init, Phases, OnePhase, CancelledIsMarked, NotOverdueStays
  <1>6. QED
    BY <1>2, <1>5 DEF IInv

-----------------------------------------------------------------------------
(* A reply that was not given before is queued.                             *)
LEMMA SaidSoFar ==
    ASSUME NEW r \in Requests, NEW kind \in Kinds,
           ElementsOf(replied') = ElementsOf(replied) \cup {<<r, kind>>}
    PROVE  /\ Cancelled' = Cancelled \cup (IF kind = "cancel" THEN {r} ELSE {})
           /\ Answered' = Answered \cup (IF kind = "answer" THEN {r} ELSE {})
           /\ Ended' = Ended \cup (IF kind \in {"timeout", "ack", "gateway"} THEN {r} ELSE {})
  <1>1. \A q \in Requests, k \in Kinds : SaidTo(q, k)' <=> SaidTo(q, k) \/ (q = r /\ k = kind)
    BY DEF SaidTo
  <1>2. Cancelled' = Cancelled \cup (IF kind = "cancel" THEN {r} ELSE {})
    BY <1>1 DEF Cancelled, Kinds
  <1>3. Answered' = Answered \cup (IF kind = "answer" THEN {r} ELSE {})
    BY <1>1 DEF Answered, Kinds
  <1>4. Ended' = Ended \cup (IF kind \in {"timeout", "ack", "gateway"} THEN {r} ELSE {})
    BY <1>1 DEF Ended, Kinds
  <1>5. QED
    BY <1>2, <1>3, <1>4

LEMMA ReplyQueued ==
    ASSUME ReplyOK, NEW r \in Requests, NEW kind \in Kinds, ~SaidTo(r, kind),
           SendRpcReply(r, kind)
    PROVE  /\ replies' \in Seq(Requests \X Kinds) /\ replies' # <<>> /\ UNCHANGED rpcReplySent
           /\ replied' \in Seq(Requests \X Kinds) /\ Distinct(replied')
           /\ ElementsOf(replied') = ElementsOf(replied) \cup {<<r, kind>>}
  <1> DEFINE e == <<r, kind>>
  <1>1. /\ replies \in Seq(Requests \X Kinds) /\ replied \in Seq(Requests \X Kinds)
        /\ e \in Requests \X Kinds /\ e \notin ElementsOf(replied) /\ Distinct(replied)
        /\ replies' = Append(replies, e) /\ replied' = Append(replied, e) /\ UNCHANGED rpcReplySent
    BY DEF ReplyOK, SaidTo, SendRpcReply
  <1> HIDE DEF e
  <1>2. replies' \in Seq(Requests \X Kinds) /\ replies' # <<>>
    BY <1>1, AppendProperties
  <1>3. /\ Append(replied, e) \in Seq(Requests \X Kinds)
        /\ ElementsOf(Append(replied, e)) = ElementsOf(replied) \cup {e}
        /\ Distinct(replied) /\ e \notin ElementsOf(replied) => Distinct(Append(replied, e))
    BY <1>1, OfAppend
  <1>4. QED
    BY <1>1, <1>2, <1>3, Zenon DEF e

LEMMA OfConcat ==
    ASSUME NEW S, NEW s \in Seq(S), NEW t \in Seq(S)
    PROVE  /\ s \o t \in Seq(S) /\ ElementsOf(s \o t) = ElementsOf(s) \cup ElementsOf(t)
           /\ Distinct(s) /\ Distinct(t) /\ ElementsOf(s) \cap ElementsOf(t) = {} => Distinct(s \o t)
  <1> DEFINE u == s \o t
  <1>1. /\ u \in Seq(S) /\ Len(u) = Len(s) + Len(t) /\ Len(s) \in Nat /\ Len(t) \in Nat
        /\ \A i \in 1..(Len(s) + Len(t)) : u[i] = IF i <= Len(s) THEN s[i] ELSE t[i - Len(s)]
        /\ DOMAIN s = 1..Len(s) /\ DOMAIN t = 1..Len(t)
    BY ConcatProperties, LenProperties
  <1>2. DOMAIN u = 1..(Len(s) + Len(t))
    BY <1>1, LenProperties
  <1> HIDE DEF u
  <1>3. \A i \in DOMAIN s : i \in DOMAIN u /\ u[i] = s[i]
    BY <1>1, <1>2
  <1>4. ASSUME NEW i \in DOMAIN t PROVE i + Len(s) \in DOMAIN u /\ u[i + Len(s)] = t[i]
    <2>1. i + Len(s) \in 1..(Len(s) + Len(t)) /\ ~(i + Len(s) <= Len(s)) /\ (i + Len(s)) - Len(s) = i
      BY <1>1
    <2>2. QED
      BY <1>1, <1>2, <2>1
  <1>5. ASSUME NEW i \in 1..(Len(s) + Len(t))
        PROVE  \/ i \in DOMAIN s /\ u[i] = s[i]
               \/ i \in Nat /\ i - Len(s) \in DOMAIN t /\ u[i] = t[i - Len(s)]
    <2>1. CASE i <= Len(s)
      <3>1. i \in 1..Len(s)
        BY <1>1, <2>1
      <3>2. QED
        BY <1>1, <2>1, <3>1
    <2>2. CASE ~(i <= Len(s))
      <3>1. i \in Nat /\ i - Len(s) \in 1..Len(t)
        BY <1>1, <2>2
      <3>2. u[i] = t[i - Len(s)]
        BY <1>1, <2>2
      <3>3. QED
        BY <1>1, <3>1, <3>2, Zenon
    <2>3. QED
      BY <2>1, <2>2
  <1>6. ElementsOf(u) = ElementsOf(s) \cup ElementsOf(t)
    <2>1. \A i \in DOMAIN s : s[i] \in ElementsOf(u)
      BY <1>3 DEF ElementsOf
    <2>2. \A i \in DOMAIN t : t[i] \in ElementsOf(u)
      BY <1>4 DEF ElementsOf
    <2>3. \A i \in DOMAIN u : u[i] \in ElementsOf(s) \cup ElementsOf(t)
      BY <1>2, <1>5 DEF ElementsOf
    <2>4. QED
      BY <2>1, <2>2, <2>3 DEF ElementsOf
  <1>7. ASSUME Distinct(s), Distinct(t), ElementsOf(s) \cap ElementsOf(t) = {},
               NEW i \in DOMAIN u, NEW j \in DOMAIN u, u[i] = u[j]
        PROVE  i = j
    <2>1. \A k \in DOMAIN s, l \in DOMAIN t : s[k] # t[l]
      BY <1>7 DEF ElementsOf
    <2>2. CASE i \in DOMAIN s /\ u[i] = s[i]
      BY <1>2, <1>5, <1>7, <2>1, <2>2 DEF Distinct
    <2>3. CASE i \in Nat /\ i - Len(s) \in DOMAIN t /\ u[i] = t[i - Len(s)]
      <3>1. j \in Nat /\ j - Len(s) \in DOMAIN t /\ u[j] = t[j - Len(s)]
        BY <1>2, <1>5, <1>7, <2>1, <2>3
      <3>2. i - Len(s) = j - Len(s)
        BY <1>7, <2>3, <3>1 DEF Distinct
      <3>3. QED
        BY <1>1, <2>3, <3>1, <3>2
    <2>4. QED
      BY <1>2, <1>5, <2>2, <2>3
  <1>8. Distinct(s) /\ Distinct(t) /\ ElementsOf(s) \cap ElementsOf(t) = {} => Distinct(u)
    BY <1>7 DEF Distinct
  <1>9. QED
    BY <1>1, <1>6, <1>8 DEF u

(* The replies of the gateway to a request it handles itself.               *)
LEMMA GatewayReplies ==
    ASSUME NEW r \in Requests, NEW own \in {<<>>, <<<<r, "ack">>>>}
    PROVE  LET all == Append(own, <<r, "gateway">>)
           IN  /\ all \in Seq(Requests \X Kinds) /\ Distinct(all) /\ all # <<>>
               /\ ElementsOf(all) \subseteq {<<r, "ack">>, <<r, "gateway">>}
  <1> DEFINE g == <<r, "gateway">>
             a == <<r, "ack">>
             S == Requests \X Kinds
  <1>1. g \in S /\ a \in S /\ g # a
    BY DEF Kinds
  <1>2. own = <<>> \/ own = <<a>>
    OBVIOUS
  <1> HIDE DEF g, a, S
  <1>3. own \in Seq(S)
    <2>1. <<>> \in Seq(S)
      BY EmptySeq
    <2>2. <<a>> \in Seq(S)
      BY <1>1
    <2>3. QED
      BY <1>2, <2>1, <2>2, Zenon
  <1>4. ElementsOf(own) \subseteq {a} /\ Distinct(own)
    BY <1>2 DEF ElementsOf, Distinct
  <1>5. /\ Append(own, g) \in Seq(S)
        /\ ElementsOf(Append(own, g)) = ElementsOf(own) \cup {g}
        /\ Distinct(own) /\ g \notin ElementsOf(own) => Distinct(Append(own, g))
    BY <1>1, <1>3, OfAppend
  <1>6. Append(own, g) # <<>>
    BY <1>1, <1>3, AppendProperties
  <1>7. g \notin ElementsOf(own)
    BY <1>1, <1>4
  <1>8. /\ Append(own, g) \in Seq(S) /\ Distinct(Append(own, g))
        /\ Append(own, g) # <<>> /\ ElementsOf(Append(own, g)) \subseteq {a, g}
    <2>1. ElementsOf(own) \cup {g} \subseteq {a, g}
      BY <1>4
    <2>2. QED
      BY <1>4, <1>5, <1>6, <1>7, <2>1, Zenon
  <1>9. QED
    BY <1>8 DEF g, a, S

-----------------------------------------------------------------------------
LEMMA NextKeepsFlags ==
    ASSUME FlagOK, [Next]_vars
    PROVE  FlagOK'
  <1> USE DEF FlagOK, replyVars, envVars
  <1>1. CASE TakeReply
    BY <1>1, Zenon DEF TakeReply
  <1>2. CASE FinishReply
    BY <1>2, Zenon DEF FinishReply
  <1>3. CASE ChangeConnection
    BY <1>3, Zenon DEF ChangeConnection
  <1>4. ASSUME NEW d \in Devices, ChangeDevice(d) PROVE FlagOK'
    BY <1>4 DEF ChangeDevice
  <1>5. ASSUME NEW r \in Requests, RpcRequestHandler(r) \/ GatewayRpcHandler(r) \/ ScheduleRpcCall(r)
                                  \/ BecomeLate(r) \/ BecomeOverdue(r)
        PROVE  UNCHANGED <<rpcReplySent, connected>>
    BY <1>5 DEF RpcRequestHandler, GatewayRpcHandler, ScheduleRpcCall, SendRpcReply, BecomeLate,
                BecomeOverdue
  <1>6. ASSUME NEW r \in TwoWay, IgnoreAnswer(r) \/ ForwardAnswer(r) \/ AnswerRaises(r)
        PROVE  UNCHANGED <<rpcReplySent, connected>>
    BY <1>6 DEF IgnoreAnswer, ForwardAnswer, SendRpcReply, AnswerRaises
  <1>7. RpcThreadNext => UNCHANGED <<rpcReplySent, connected>>
    BY DEF RpcThreadNext, AnswerLate, Requeue, FindDevice, LookUpFails, Unhandled, HandleOneWay,
           HandleTwoWay, PublishTwoWay, SendRpcReply
  <1>8. WatcherNext => UNCHANGED <<rpcReplySent, connected>>
    BY DEF WatcherNext, CallsBegin, CallScheduled, CallsRaise, TurnEnds, CallsVars, WatchBegin,
           PassEntry, CancelEntry, MarkEntry, WatchRaises, CopyTable, AssignTable, SendRpcReply
  <1>9. PopAnswered \/ UNCHANGED vars => UNCHANGED <<rpcReplySent, connected>>
    BY DEF PopAnswered, vars
  <1>10. UNCHANGED <<rpcReplySent, connected>> => FlagOK'
    OBVIOUS
  <1>11. QED
    BY <1>1, <1>2, <1>3, <1>4, <1>5, <1>6, <1>7, <1>8, <1>9, <1>10 DEF Next

LEMMA NextKeepsQueues ==
    ASSUME IInv, [Next]_vars
    PROVE  QueueOK'
  <1> USE DEF QueueOK, rpcVars, platformVars
  <1>1. QueueOK /\ Queued \subseteq received /\ \A r \in Queued : r \in Requests
    BY ElementsIn DEF IInv, Structure, Phases, OnePhase, Queued
  <1>2. ASSUME NEW r \in Requests, RpcRequestHandler(r) PROVE QueueOK'
    <2>1. r \notin ElementsOf(queue)
      BY <1>1, <1>2 DEF RpcRequestHandler, Queued
    <2>2. queue' = Append(queue, r) /\ received' = received \cup {r} /\ UNCHANGED <<late, scheduled>>
      BY <1>2 DEF RpcRequestHandler
    <2>3. queue' \in Seq(Requests) /\ Distinct(queue')
      BY <1>1, <2>1, <2>2, OfAppend
    <2>4. QED
      BY <1>1, <2>2, <2>3
  <1>3. ASSUME NEW r \in Requests, GatewayRpcHandler(r) PROVE QueueOK'
    <2>1. received' = received \cup {r} /\ UNCHANGED <<queue, late, scheduled>>
      BY <1>3 DEF GatewayRpcHandler
    <2>2. QED
      BY <1>1, <2>1
  <1>4. ASSUME NEW r \in Requests, ScheduleRpcCall(r) PROVE QueueOK'
    <2>1. received' = received \cup {r} /\ scheduled' = Append(scheduled, r) /\ UNCHANGED <<queue, late>>
      BY <1>4 DEF ScheduleRpcCall
    <2>2. scheduled' \in Seq(Requests)
      BY <1>1, <2>1, AppendProperties
    <2>3. QED
      BY <1>1, <2>1, <2>2
  <1>5. ASSUME NEW r \in Requests, BecomeLate(r) PROVE QueueOK'
    BY <1>1, <1>5 DEF BecomeLate
  <1>6. CASE AnswerLate \/ FindDevice
    <2>1. queue # <<>> /\ queue' = Tail(queue) /\ UNCHANGED <<late, scheduled, received>>
      BY <1>6 DEF AnswerLate, FindDevice
    <2>2. Tail(queue) \in Seq(Requests) /\ Distinct(Tail(queue))
      BY <1>1, <2>1, OfTail
    <2>3. QED
      BY <1>1, <2>1, <2>2
  <1>7. CASE Requeue
    <2>1. /\ queue # <<>> /\ queue' = Append(Tail(queue), Head(queue))
          /\ UNCHANGED <<late, scheduled, received>>
      BY <1>7 DEF Requeue
    <2>2. Append(Tail(queue), Head(queue)) \in Seq(Requests) /\ Distinct(Append(Tail(queue), Head(queue)))
      BY <1>1, <2>1, OfRotation
    <2>3. QED
      BY <1>1, <2>1, <2>2, Zenon
  <1>8. CASE CallScheduled
    <2>1. UNCHANGED <<queue, late, received>> /\ scanned < scanSize /\ scanned < Len(scheduled)
      BY <1>8 DEF CallScheduled, CallsVars
    <2>2. scheduled' \in Seq(Requests)
      <3>1. scanned \in Nat /\ Len(scheduled) \in Nat /\ \A k \in 1..Len(scheduled) : scheduled[k] \in Requests
        BY <1>1, LenProperties, ElementOfSeq DEF IInv, Structure, ThreadOK
      <3>2. SubSeq(scheduled, 1, scanned) \in Seq(Requests)
        BY <2>1, <3>1, SubSeqProperties
      <3>3. SubSeq(scheduled, scanned + 2, Len(scheduled)) \in Seq(Requests)
        BY <2>1, <3>1, SubSeqProperties
      <3>4. SubSeq(scheduled, 1, scanned) \o SubSeq(scheduled, scanned + 2, Len(scheduled)) \in Seq(Requests)
        BY <3>2, <3>3, ConcatProperties
      <3>5. QED
        BY <1>1, <1>8, <3>4, Zenon DEF CallScheduled
    <2>3. QED
      BY <1>1, <2>1, <2>2
  <1>9. CASE UNCHANGED <<queue, late, scheduled, received>>
    BY <1>1, <1>9
  <1>10. ASSUME NEW r \in Requests, BecomeOverdue(r) PROVE QueueOK'
    BY <1>9, <1>10 DEF BecomeOverdue
  <1>11. ASSUME NEW r \in TwoWay, IgnoreAnswer(r) \/ ForwardAnswer(r) \/ AnswerRaises(r) PROVE QueueOK'
    BY <1>9, <1>11 DEF IgnoreAnswer, ForwardAnswer, AnswerRaises
  <1>12. CASE LookUpFails \/ Unhandled \/ HandleOneWay \/ HandleTwoWay \/ PublishTwoWay
    BY <1>9, <1>12 DEF LookUpFails, Unhandled, HandleOneWay, HandleTwoWay, PublishTwoWay
  <1>13. CASE CallsBegin \/ CallsRaise \/ TurnEnds
    BY <1>9, <1>13 DEF CallsBegin, CallsRaise, TurnEnds, CallsVars
  <1>14. CASE WatchBegin \/ PassEntry \/ CancelEntry \/ MarkEntry \/ WatchRaises \/ CopyTable \/ AssignTable
    BY <1>9, <1>14 DEF WatchBegin, PassEntry, CancelEntry, MarkEntry, WatchRaises, CopyTable, AssignTable
  <1>15. CASE PopAnswered \/ TakeReply \/ FinishReply
    BY <1>9, <1>15 DEF PopAnswered, TakeReply, FinishReply
  <1>16. ASSUME NEW d \in Devices, ChangeDevice(d) PROVE QueueOK'
    BY <1>9, <1>16 DEF ChangeDevice
  <1>17. CASE ChangeConnection \/ UNCHANGED vars
    BY <1>9, <1>17 DEF ChangeConnection, vars
  <1>18. QED
    BY <1>2, <1>3, <1>4, <1>5, <1>6, <1>7, <1>8, <1>10, <1>11, <1>12, <1>13, <1>14, <1>15, <1>16, <1>17
       DEF Next, RpcThreadNext, WatcherNext

LEMMA NextKeepsThreads ==
    ASSUME IInv, [Next]_vars
    PROVE  ThreadOK'
  <1> USE DEF ThreadOK, rpcVars, messageVars, envVars
  <1>1. ThreadOK /\ (queue # <<>> => Head(queue) \in Requests)
    BY HeadTailProperties DEF IInv, Structure, QueueOK
  <1>2. CASE UNCHANGED <<rpcThread, request, watcher, scanned, scanSize, messageThread, answering,
                         devices, changes>>
    BY <1>1, <1>2
  <1>3. ASSUME NEW r \in Requests, RpcRequestHandler(r) \/ GatewayRpcHandler(r) \/ ScheduleRpcCall(r)
                                  \/ BecomeLate(r) \/ BecomeOverdue(r)
        PROVE  ThreadOK'
    BY <1>2, <1>3
       DEF RpcRequestHandler, GatewayRpcHandler, ScheduleRpcCall, BecomeLate, BecomeOverdue, watcherVars
  <1>4. ASSUME NEW r \in TwoWay, IgnoreAnswer(r) PROVE ThreadOK'
    BY <1>2, <1>4 DEF IgnoreAnswer, watcherVars
  <1>5. ASSUME NEW r \in TwoWay, ForwardAnswer(r) PROVE ThreadOK'
    <2>1. messageThread' = "popping" /\ answering' = r
          /\ UNCHANGED <<rpcThread, request, watcher, scanned, scanSize, devices, changes>>
      BY <1>5 DEF ForwardAnswer, watcherVars
    <2>2. QED
      BY <1>1, <2>1
  <1>6. ASSUME NEW r \in TwoWay, AnswerRaises(r) PROVE ThreadOK'
    <2>1. messageThread' = "dead" /\ answering' = answering
          /\ UNCHANGED <<rpcThread, request, watcher, scanned, scanSize, devices, changes>>
      BY <1>6 DEF AnswerRaises, watcherVars
    <2>2. QED
      BY <1>1, <2>1
  <1>7. CASE PopAnswered
    <2>1. messageThread' = "idle" /\ answering' = NoRequest
          /\ UNCHANGED <<rpcThread, request, watcher, scanned, scanSize, devices, changes>>
      BY <1>7 DEF PopAnswered, watcherVars
    <2>2. QED
      BY <1>1, <2>1
  <1>8. CASE AnswerLate \/ Requeue \/ TakeReply \/ FinishReply \/ UNCHANGED vars
    BY <1>2, <1>8 DEF AnswerLate, Requeue, TakeReply, FinishReply, watcherVars, vars
  <1>9. CASE UNCHANGED <<watcher, scanned, scanSize, messageThread, answering, devices, changes>>
             /\ rpcThread' \in {"idle", "found", "waiting", "dead"}
             /\ request' \in Requests \cup {NoRequest}
             /\ (rpcThread' # "idle" => request' \in Requests)
             /\ (rpcThread' = "waiting" => request' \in TwoWay)
    BY <1>1, <1>9
  <1>10. CASE FindDevice
    BY <1>1, <1>9, <1>10 DEF FindDevice, watcherVars
  <1>11. CASE LookUpFails
    BY <1>1, <1>9, <1>11 DEF LookUpFails, watcherVars
  <1>12. CASE Unhandled \/ HandleOneWay \/ PublishTwoWay
    BY <1>1, <1>9, <1>12 DEF Unhandled, HandleOneWay, PublishTwoWay, watcherVars
  <1>13. CASE HandleTwoWay
    BY <1>1, <1>9, <1>13 DEF HandleTwoWay, watcherVars
  <1>14. CASE UNCHANGED <<rpcThread, request, messageThread, answering, devices, changes>>
              /\ watcher' \in {"idle", "calls", "scan", "cancelled", "copied"}
              /\ scanned' \in Nat /\ scanSize' \in Nat
    BY <1>1, <1>14
  <1>15. Len(scheduled) \in Nat /\ Len(table) \in Nat
    BY LenProperties DEF IInv, Structure, QueueOK, DictionaryOK
  <1>16. CASE CallsBegin \/ CallScheduled \/ CallsRaise \/ TurnEnds
    <2>1. /\ watcher' = "idle" \/ watcher' = "calls"
          /\ scanned' = 0 \/ scanned' = scanned \/ scanned' = scanned + 1
          /\ scanSize' = scanSize \/ scanSize' = Len(scheduled)
          /\ UNCHANGED <<rpcThread, request, messageThread, answering, devices, changes>>
      BY <1>16 DEF CallsBegin, CallScheduled, CallsRaise, TurnEnds, CallsVars
    <2>2. QED
      BY <1>1, <1>14, <1>15, <2>1
  <1>17. CASE WatchBegin \/ PassEntry \/ CancelEntry \/ WatchRaises \/ CopyTable \/ AssignTable
    BY <1>1, <1>14, <1>15, <1>17
       DEF WatchBegin, PassEntry, CancelEntry, WatchRaises, CopyTable, AssignTable
  <1>18. CASE MarkEntry
    BY <1>1, <1>14, <1>15, <1>18 DEF MarkEntry
  <1>19. ASSUME NEW d \in Devices, ChangeDevice(d) PROVE ThreadOK'
    <2>1. PICK s \in {"absent", "bare", "served"} : devices' = [devices EXCEPT ![d] = s]
      BY <1>19 DEF ChangeDevice
    <2>2. changes < MaxChanges /\ changes' = changes + 1
          /\ UNCHANGED <<rpcThread, request, watcher, scanned, scanSize, messageThread, answering>>
      BY <1>19 DEF ChangeDevice, watcherVars
    <2>3. QED
      BY <1>1, <2>1, <2>2
  <1>20. CASE ChangeConnection
    <2>1. changes < MaxChanges /\ changes' = changes + 1
          /\ UNCHANGED <<rpcThread, request, watcher, scanned, scanSize, messageThread, answering, devices>>
      BY <1>20 DEF ChangeConnection, watcherVars
    <2>2. QED
      BY <1>1, <2>1
  <1>21. QED
    BY <1>3, <1>4, <1>5, <1>6, <1>7, <1>8, <1>10, <1>11, <1>12, <1>13, <1>16, <1>17, <1>18, <1>19, <1>20
       DEF Next, RpcThreadNext, WatcherNext

(* Who gets a reply did not get that one before.                            *)
LEMMA NotSaidYet ==
    ASSUME IInv
    PROVE  /\ \A r \in Requests \ received : ~SaidTo(r, "ack") /\ ~SaidTo(r, "gateway")
           /\ queue # <<>> => Head(queue) \in Requests /\ ~SaidTo(Head(queue), "timeout")
           /\ rpcThread = "found" => request \in Requests /\ ~SaidTo(request, "ack")
           /\ AtEntry /\ Entry \in overdue \ marked => Entry \in Requests /\ ~SaidTo(Entry, "cancel")
           /\ \A r \in Requests \ answered : ~SaidTo(r, "answer")
  <1> USE DEF IInv, Phases
  <1>1. \A r \in Requests \ received : ~SaidTo(r, "ack") /\ ~SaidTo(r, "gateway")
    BY DEF OnePhase, Ended
  <1>2. queue # <<>> => Head(queue) \in Requests /\ ~SaidTo(Head(queue), "timeout")
    <2>1. queue # <<>> => Head(queue) \in Queued /\ Head(queue) \in Requests
      BY OfTail DEF Structure, QueueOK, Queued
    <2>2. QED
      BY <2>1 DEF OnePhase, Ended
  <1>3. rpcThread = "found" => request \in Requests /\ ~SaidTo(request, "ack")
    <2>1. rpcThread = "found" => request \in Held /\ request \in Requests
      BY DEF Held, Structure, ThreadOK
    <2>2. QED
      BY <2>1 DEF OnePhase, Ended
  <1>4. ASSUME AtEntry, Entry \in overdue \ marked
        PROVE  Entry \in Requests /\ ~SaidTo(Entry, "cancel")
    <2>1. watcher = "scan" /\ scanned \in Nat /\ scanned < Len(table) /\ table \in Seq(TwoWay)
      BY <1>4 DEF AtEntry, Scanning, Structure, ThreadOK, DictionaryOK
    <2>2. Len(table) \in Nat
      BY <2>1, LenProperties
    <2>3. scanned + 1 \in 1..Len(table)
      BY <2>1, <2>2
    <2>4. Entry \in InProgress /\ Entry \in TwoWay
      BY <2>1, <2>3, ElementsIn DEF Entry, InProgress
    <2>5. Cancelling = {}
      BY <2>1 DEF Cancelling
    <2>6. QED
      BY <1>4, <2>4, <2>5 DEF CancelledIsMarked, Cancelled
  <1>5. \A r \in Requests \ answered : ~SaidTo(r, "answer")
    BY DEF OnePhase, Answered
  <1>6. QED
    BY <1>1, <1>2, <1>3, <1>4, <1>5

LEMMA NextKeepsReplies ==
    ASSUME IInv, [Next]_vars
    PROVE  ReplyOK'
  <1> USE DEF replyVars
  <1>1. ReplyOK
    BY DEF IInv, Structure
  <1>2. ASSUME NEW r \in Requests, NEW kind \in Kinds, ~SaidTo(r, kind), SendRpcReply(r, kind)
        PROVE  ReplyOK'
    BY <1>1, <1>2, ReplyQueued DEF ReplyOK
  <1>3. CASE UNCHANGED <<replies, replied, rpcReplySent>>
    BY <1>1, <1>3 DEF ReplyOK
  <1>4. ASSUME NEW r \in Requests, GatewayRpcHandler(r) PROVE ReplyOK'
    <2>1. PICK own \in {<<>>, <<<<r, "ack">>>>} :
             LET all == Append(own, <<r, "gateway">>)
             IN  replies' = replies \o all /\ replied' = replied \o all
      BY <1>4 DEF GatewayRpcHandler
    <2> DEFINE all == Append(own, <<r, "gateway">>)
    <2>2. /\ all \in Seq(Requests \X Kinds) /\ Distinct(all) /\ all # <<>>
          /\ ElementsOf(all) \subseteq {<<r, "ack">>, <<r, "gateway">>}
      BY GatewayReplies
    <2>3. replies' = replies \o all /\ replied' = replied \o all
      BY <2>1
    <2> HIDE DEF all
    <2>4. ~SaidTo(r, "ack") /\ ~SaidTo(r, "gateway")
      BY <1>4, NotSaidYet DEF GatewayRpcHandler
    <2>5. ElementsOf(replied) \cap ElementsOf(all) = {}
      BY <2>2, <2>4 DEF SaidTo
    <2>6. replied \o all \in Seq(Requests \X Kinds) /\ Distinct(replied \o all)
      BY <1>1, <2>2, <2>5, OfConcat DEF ReplyOK
    <2>7. replies \o all \in Seq(Requests \X Kinds) /\ Len(replies \o all) > 0
      <3>1. Len(all) \in Nat /\ Len(all) > 0 /\ Len(replies) \in Nat
        BY <1>1, <2>2, LenProperties, EmptySeq DEF ReplyOK
      <3>2. QED
        BY <1>1, <2>2, <3>1, ConcatProperties DEF ReplyOK
    <2>8. replies' # <<>>
      BY <2>3, <2>7, EmptySeq
    <2>9. QED
      BY <2>3, <2>6, <2>7, <2>8, Zenon DEF ReplyOK
  <1>5. ASSUME NEW r \in Requests, ScheduleRpcCall(r) PROVE ReplyOK'
    BY <1>2, <1>5, NotSaidYet DEF ScheduleRpcCall, Kinds
  <1>6. CASE AnswerLate
    BY <1>2, <1>6, NotSaidYet DEF AnswerLate, Kinds
  <1>7. CASE HandleOneWay
    BY <1>2, <1>7, NotSaidYet DEF HandleOneWay, Kinds
  <1>8. CASE CancelEntry
    BY <1>2, <1>8, NotSaidYet DEF CancelEntry, Kinds
  <1>9. ASSUME NEW r \in TwoWay, ForwardAnswer(r) PROVE ReplyOK'
    BY <1>2, <1>9, NotSaidYet DEF ForwardAnswer, Kinds
  <1>10. CASE TakeReply
    BY <1>1, <1>10 DEF TakeReply, ReplyOK
  <1>11. CASE FinishReply
    <2>1. rpcReplySent /\ replies' = Tail(replies) /\ ~rpcReplySent' /\ replied' = replied
      BY <1>11, Zenon DEF FinishReply
    <2>2. replies # <<>> /\ replies \in Seq(Requests \X Kinds)
      BY <1>1, <2>1, Zenon DEF ReplyOK
    <2>3. replies' \in Seq(Requests \X Kinds)
      BY <2>1, <2>2, HeadTailProperties
    <2>4. QED
      BY <1>1, <2>1, <2>3, Zenon DEF ReplyOK
  <1>12. ASSUME NEW r \in Requests, RpcRequestHandler(r) \/ BecomeLate(r) \/ BecomeOverdue(r) PROVE ReplyOK'
    BY <1>3, <1>12 DEF RpcRequestHandler, BecomeLate, BecomeOverdue
  <1>13. ASSUME NEW r \in TwoWay, IgnoreAnswer(r) \/ AnswerRaises(r) PROVE ReplyOK'
    BY <1>3, <1>13 DEF IgnoreAnswer, AnswerRaises
  <1>14. CASE Requeue \/ FindDevice \/ LookUpFails \/ Unhandled \/ HandleTwoWay \/ PublishTwoWay
    BY <1>3, <1>14 DEF Requeue, FindDevice, LookUpFails, Unhandled, HandleTwoWay, PublishTwoWay
  <1>15. CASE CallsBegin \/ CallScheduled \/ CallsRaise \/ TurnEnds
    BY <1>3, <1>15 DEF CallsBegin, CallScheduled, CallsRaise, TurnEnds, CallsVars
  <1>16. CASE WatchBegin \/ PassEntry \/ MarkEntry \/ WatchRaises \/ CopyTable \/ AssignTable
    BY <1>3, <1>16 DEF WatchBegin, PassEntry, MarkEntry, WatchRaises, CopyTable, AssignTable
  <1>17. ASSUME NEW d \in Devices, ChangeDevice(d) PROVE ReplyOK'
    BY <1>3, <1>17 DEF ChangeDevice
  <1>18. CASE PopAnswered \/ ChangeConnection \/ UNCHANGED vars
    BY <1>3, <1>18 DEF PopAnswered, ChangeConnection, vars
  <1>19. QED
    BY <1>4, <1>5, <1>6, <1>7, <1>8, <1>9, <1>10, <1>11, <1>12, <1>13, <1>14, <1>15, <1>16, <1>17, <1>18
       DEF Next, RpcThreadNext, WatcherNext

LEMMA NextKeepsDictionary ==
    ASSUME IInv, [Next]_vars
    PROVE  DictionaryOK'
  <1> USE DEF tableVars, deviceVars, watcherVars, envVars
  <1>1. DictionaryOK /\ ThreadOK
    BY DEF IInv, Structure
  <1>2. CASE UNCHANGED <<registerQueue, table, copy, marked, overdue, answered, published>>
             /\ ((watcher' = "copied" \/ watcher' = "cancelled") => watcher' = watcher)
    BY <1>1, <1>2 DEF DictionaryOK
  <1>3. ASSUME NEW r \in Requests, RpcRequestHandler(r) \/ GatewayRpcHandler(r) \/ ScheduleRpcCall(r)
                                  \/ BecomeLate(r)
        PROVE  DictionaryOK'
    BY <1>2, <1>3 DEF RpcRequestHandler, GatewayRpcHandler, ScheduleRpcCall, BecomeLate
  <1>4. ASSUME NEW r \in Requests, BecomeOverdue(r) PROVE DictionaryOK'
    <2>1. r \in TwoWay
      BY <1>1, <1>4, ElementsIn DEF BecomeOverdue, DictionaryOK
    <2>2. overdue' = overdue \cup {r}
          /\ UNCHANGED <<registerQueue, table, copy, marked, answered, published, watcher>>
      BY <1>4 DEF BecomeOverdue
    <2>3. QED
      BY <1>1, <2>1, <2>2 DEF DictionaryOK
  <1>5. ASSUME NEW r \in TwoWay, IgnoreAnswer(r) \/ ForwardAnswer(r) \/ AnswerRaises(r)
        PROVE  DictionaryOK'
    <2>1. answered' = answered \cup {r} /\ r \in published
          /\ UNCHANGED <<registerQueue, table, copy, marked, overdue, published, watcher>>
      BY <1>5 DEF IgnoreAnswer, ForwardAnswer, AnswerRaises
    <2>2. QED
      BY <1>1, <2>1 DEF DictionaryOK
  <1>6. CASE AnswerLate \/ Requeue \/ FindDevice \/ LookUpFails \/ Unhandled \/ HandleOneWay
    BY <1>2, <1>6 DEF AnswerLate, Requeue, FindDevice, LookUpFails, Unhandled, HandleOneWay
  <1>7. CASE HandleTwoWay
    <2>1. request \in TwoWay /\ registerQueue' = Append(registerQueue, request) /\ rpcThread = "found"
          /\ UNCHANGED <<table, copy, marked, overdue, answered, published, watcher>>
      BY <1>7 DEF HandleTwoWay
    <2>2. request \notin ElementsOf(registerQueue)
      BY <2>1 DEF IInv, Phases, OnePhase, Held, Active, Registering
    <2>3. registerQueue' \in Seq(TwoWay) /\ Distinct(registerQueue')
      BY <1>1, <2>1, <2>2, OfAppend DEF DictionaryOK
    <2>4. QED
      BY <1>1, <2>1, <2>3 DEF DictionaryOK
  <1>8. CASE PublishTwoWay
    <2>1. published' = published \cup {request} /\ request \in ElementsOf(table)
          /\ UNCHANGED <<registerQueue, table, copy, marked, overdue, answered, watcher>>
      BY <1>8 DEF PublishTwoWay
    <2>2. request \in TwoWay
      BY <1>1, <2>1, ElementsIn DEF DictionaryOK
    <2>3. QED
      BY <1>1, <2>1, <2>2 DEF DictionaryOK
  <1>9. CASE CallsBegin \/ CallScheduled \/ CallsRaise \/ TurnEnds
    BY <1>2, <1>9 DEF CallsBegin, CallScheduled, CallsRaise, TurnEnds, CallsVars
  <1>10. CASE WatchBegin \/ PassEntry \/ WatchRaises
    BY <1>2, <1>10 DEF WatchBegin, PassEntry, WatchRaises
  <1>11. CASE CancelEntry
    <2>1. copy' = <<Entry>> /\ watcher' = "cancelled" /\ scanned < Len(table)
          /\ UNCHANGED <<registerQueue, table, marked, overdue, answered, published>>
      BY <1>11 DEF CancelEntry, AtEntry
    <2>2. Entry \in TwoWay
      <3>1. scanned \in Nat /\ Len(table) \in Nat
        BY <1>1, LenProperties DEF DictionaryOK, ThreadOK
      <3>2. scanned + 1 \in 1..Len(table)
        BY <2>1, <3>1
      <3>3. QED
        BY <1>1, <3>2, ElementOfSeq DEF DictionaryOK, Entry
    <2> HIDE DEF Entry
    <2>3. copy' \in Seq(TwoWay) /\ Len(copy') = 1
      BY <2>1, <2>2
    <2>4. QED
      BY <1>1, <2>1, <2>3 DEF DictionaryOK
  <1>12. CASE MarkEntry
    <2> DEFINE r == copy[1]
    <2>1. /\ marked' = marked \cup {r} /\ watcher = "cancelled" /\ watcher' = "scan"
          /\ UNCHANGED <<registerQueue, copy, overdue, answered, published>>
      BY <1>12 DEF MarkEntry
    <2>2. r \in TwoWay
      BY <1>1, <2>1, ElementOfSeq DEF DictionaryOK
    <2>3. IF r \in ElementsOf(table) THEN table' = table ELSE table' = Append(table, r)
      BY <1>12 DEF MarkEntry
    <2> HIDE DEF r
    <2>4. /\ table' \in Seq(TwoWay) /\ Distinct(table')
          /\ ElementsOf(table') = ElementsOf(table) \cup {r}
      <3>1. CASE r \in ElementsOf(table)
        <4>1. table' = table /\ ElementsOf(table) \cup {r} = ElementsOf(table)
          BY <2>3, <3>1
        <4>2. QED
          BY <1>1, <4>1 DEF DictionaryOK
      <3>2. CASE r \notin ElementsOf(table)
        <4>1. table \in Seq(TwoWay) /\ Distinct(table) /\ table' = Append(table, r)
          BY <1>1, <2>3, <3>2 DEF DictionaryOK
        <4>2. /\ Append(table, r) \in Seq(TwoWay)
              /\ ElementsOf(Append(table, r)) = ElementsOf(table) \cup {r}
              /\ Distinct(table) /\ r \notin ElementsOf(table) => Distinct(Append(table, r))
          BY <2>2, <4>1, OfAppend
        <4>3. QED
          BY <3>2, <4>1, <4>2, Zenon
      <3>3. QED
        BY <3>1, <3>2
    <2>5. QED
      BY <1>1, <2>1, <2>4 DEF DictionaryOK
  <1>13. CASE CopyTable
    <2>1. /\ copy' \in Shortened(table) /\ IsWithout(copy', table, marked) /\ watcher' = "copied"
          /\ UNCHANGED <<registerQueue, table, marked, overdue, answered, published>>
      BY <1>13 DEF CopyTable
    <2>2. copy' \in Seq(TwoWay) /\ Distinct(copy')
      BY <1>1, <2>1, OfWithout DEF DictionaryOK
    <2>3. QED
      BY <1>1, <2>1, <2>2 DEF DictionaryOK
  <1>14. CASE AssignTable /\ registerQueue = <<>>
    <2>1. /\ watcher = "copied" /\ watcher' = "idle" /\ table' = copy /\ marked' = {}
          /\ UNCHANGED <<registerQueue, copy, overdue, answered, published>>
      BY <1>14 DEF AssignTable
    <2>2. QED
      BY <1>1, <2>1 DEF DictionaryOK
  <1>15. CASE AssignTable /\ registerQueue # <<>>
    <2> DEFINE r == Head(registerQueue)
    <2>1. /\ watcher = "copied" /\ watcher' = "idle" /\ table' = Append(table, r)
          /\ registerQueue' = Tail(registerQueue)
          /\ UNCHANGED <<marked, copy, overdue, answered, published>>
      BY <1>15 DEF AssignTable
    <2>2. /\ r \in ElementsOf(registerQueue) /\ r \in TwoWay
          /\ registerQueue' \in Seq(TwoWay) /\ Distinct(registerQueue')
      BY <1>1, <1>15, <2>1, OfTail DEF DictionaryOK
    <2>3. r \notin ElementsOf(table)
      BY <2>2 DEF IInv, Phases, OnePhase, Registering, InProgress
    <2> HIDE DEF r
    <2>4. table' \in Seq(TwoWay) /\ Distinct(table') /\ ElementsOf(table') = ElementsOf(table) \cup {r}
      BY <1>1, <2>1, <2>2, <2>3, OfAppend DEF DictionaryOK
    <2>5. QED
      BY <1>1, <2>1, <2>2, <2>4 DEF DictionaryOK
  <1>16. CASE PopAnswered
    <2>1. /\ table' \in Shortened(table) /\ IsWithout(table', table, {answering})
          /\ marked' = marked \ {answering}
          /\ UNCHANGED <<registerQueue, copy, overdue, answered, published, watcher>>
      BY <1>16 DEF PopAnswered
    <2>2. table' \in Seq(TwoWay) /\ Distinct(table') /\ ElementsOf(table') = ElementsOf(table) \ {answering}
      BY <1>1, <2>1, OfWithout DEF DictionaryOK
    <2>3. QED
      BY <1>1, <2>1, <2>2 DEF DictionaryOK
  <1>17. ASSUME NEW d \in Devices, ChangeDevice(d) PROVE DictionaryOK'
    BY <1>2, <1>17 DEF ChangeDevice
  <1>18. CASE TakeReply \/ FinishReply \/ ChangeConnection \/ UNCHANGED vars
    BY <1>2, <1>18 DEF TakeReply, FinishReply, ChangeConnection, vars
  <1>19. QED
    BY <1>3, <1>4, <1>5, <1>6, <1>7, <1>8, <1>9, <1>10, <1>11, <1>12, <1>13, <1>14, <1>15, <1>16,
       <1>17, <1>18
       DEF Next, RpcThreadNext, WatcherNext

-----------------------------------------------------------------------------
(* Where the requests are depends on few variables each.                    *)
LEMMA SetsUnchanged ==
    /\ UNCHANGED queue => UNCHANGED Queued
    /\ UNCHANGED <<rpcThread, request>> => UNCHANGED <<Held, Waiting>>
    /\ UNCHANGED registerQueue => UNCHANGED Registering
    /\ UNCHANGED table => UNCHANGED InProgress
    /\ UNCHANGED <<watcher, copy>> => UNCHANGED <<Copied, Cancelling>>
    /\ UNCHANGED replied => UNCHANGED <<Cancelled, Answered, Ended>>
    /\ watcher \notin {"copied", "cancelled"} /\ watcher' \notin {"copied", "cancelled"}
          => UNCHANGED <<Copied, Cancelling>>
  BY DEF Queued, Held, Waiting, Registering, InProgress, Copied, Cancelling, Cancelled, Answered,
         Ended, SaidTo

SetVars == <<Queued, Held, Waiting, Registering, InProgress, Copied, Cancelling, marked, overdue,
             published, answered, Cancelled, Answered, Ended, received>>

(* A request comes in, and the RPC thread takes it.                         *)
LEMMA RpcThreadKeepsPhases ==
    ASSUME IInv, [Next]_vars
    PROVE  /\ (\E r \in Requests : RpcRequestHandler(r) \/ GatewayRpcHandler(r) \/ ScheduleRpcCall(r)
                                    \/ BecomeLate(r)) => Phases'
           /\ RpcThreadNext => Phases'
  <1> USE DEF IInv, Phases, tableVars, watcherVars, messageVars, deviceVars, envVars
  <1>1. Structure
    OBVIOUS
  <1>2. UNCHANGED <<Registering, InProgress, Copied, Cancelling, marked, overdue, published, answered,
                    watcher, messageThread, answering>>
        /\ UNCHANGED <<Waiting, Cancelled, Answered>>
        /\ received \subseteq received' /\ Queued' \cup Held' \cup Ended' \subseteq received'
        /\ Queued' \cap (Held' \cup Active \cup Ended') = {}
        /\ Held' \cap (Active \cup Ended') = {}
        /\ Active \cap Ended' = {}
        => Phases'
    BY DEF OnePhase, Active, CancelledIsMarked, NotOverdueStays
  <1>3. ASSUME UNCHANGED <<tableVars, watcherVars, messageVars, deviceVars, envVars>>
        PROVE  /\ UNCHANGED <<Registering, InProgress, Copied, Cancelling, marked, overdue, published,
                             answered, watcher, messageThread, answering>>
    BY <1>3, SetsUnchanged
  <1>4. ASSUME NEW r \in Requests, RpcRequestHandler(r) PROVE Phases'
    <2>1. /\ r \notin received /\ received' = received \cup {r} /\ queue' = Append(queue, r)
          /\ UNCHANGED <<rpcThread, request, replied>>
          /\ UNCHANGED <<tableVars, watcherVars, messageVars, deviceVars, envVars>>
      BY <1>4 DEF RpcRequestHandler, replyVars
    <2>2. Queued' = Queued \cup {r}
      BY <2>1, OfAppend DEF Queued, Structure, QueueOK
    <2>3. UNCHANGED <<Held, Waiting, Cancelled, Answered, Ended>>
      BY <2>1, SetsUnchanged
    <2>4. QED
      BY <1>2, <1>3, <2>1, <2>2, <2>3 DEF OnePhase
  <1>5. ASSUME NEW r \in Requests, r \notin received, received' = received \cup {r},
               UNCHANGED <<rpcVars, tableVars, watcherVars, messageVars, deviceVars, envVars>>,
               NEW K \in SUBSET {<<r, "ack">>, <<r, "gateway">>},
               ElementsOf(replied') = ElementsOf(replied) \cup K
        PROVE  Phases'
    <2>1. UNCHANGED <<Queued, Held, Waiting>>
      BY <1>5, SetsUnchanged DEF rpcVars
    <2>2. \A q \in Requests, k \in Kinds : SaidTo(q, k)' => SaidTo(q, k) \/ (q = r /\ k \in {"ack", "gateway"})
      BY <1>5 DEF SaidTo
    <2>6. \A q \in Requests, k \in Kinds : SaidTo(q, k) => SaidTo(q, k)'
      BY <1>5 DEF SaidTo
    <2>3. UNCHANGED <<Cancelled, Answered>>
      BY <2>2, <2>6 DEF Cancelled, Answered, Kinds
    <2>4. Ended' \subseteq Ended \cup {r}
      BY <2>2 DEF Ended, Kinds
    <2>5. QED
      BY <1>2, <1>3, <1>5, <2>1, <2>3, <2>4 DEF OnePhase
  <1>6. ASSUME NEW r \in Requests, GatewayRpcHandler(r) PROVE Phases'
    <2>1. PICK own \in {<<>>, <<<<r, "ack">>>>} : replied' = replied \o Append(own, <<r, "gateway">>)
      BY <1>6 DEF GatewayRpcHandler
    <2> DEFINE all == Append(own, <<r, "gateway">>)
    <2>2. /\ all \in Seq(Requests \X Kinds)
          /\ ElementsOf(all) \subseteq {<<r, "ack">>, <<r, "gateway">>}
      BY GatewayReplies
    <2> HIDE DEF all
    <2>3. ElementsOf(replied') = ElementsOf(replied) \cup ElementsOf(all)
      <3>1. replied \in Seq(Requests \X Kinds) /\ replied' = replied \o all
        BY <2>1 DEF Structure, ReplyOK, all
      <3>2. ElementsOf(replied \o all) = ElementsOf(replied) \cup ElementsOf(all)
        BY <2>2, <3>1, OfConcat
      <3>3. QED
        BY <3>1, <3>2
    <2>4. /\ r \notin received /\ received' = received \cup {r}
          /\ UNCHANGED <<rpcVars, tableVars, watcherVars, messageVars, deviceVars, envVars>>
      BY <1>6 DEF GatewayRpcHandler
    <2>5. QED
      BY <1>5, <2>2, <2>3, <2>4
  <1>7. ASSUME NEW r \in Requests, ScheduleRpcCall(r) PROVE Phases'
    <2>1. ElementsOf(replied') = ElementsOf(replied) \cup {<<r, "gateway">>}
      BY <1>7, NotSaidYet, ReplyQueued DEF ScheduleRpcCall, Kinds, Structure
    <2>2. /\ r \notin received /\ received' = received \cup {r}
          /\ UNCHANGED <<rpcVars, tableVars, watcherVars, messageVars, deviceVars, envVars>>
      BY <1>7 DEF ScheduleRpcCall
    <2>3. QED
      BY <1>5, <2>1, <2>2
  <1>8. ASSUME NEW r \in Requests, BecomeLate(r) PROVE Phases'
    <2>1. UNCHANGED SetVars /\ UNCHANGED <<watcher, messageThread, answering>>
      BY <1>8, SetsUnchanged DEF BecomeLate, replyVars, platformVars, SetVars
    <2>2. QED
      BY <2>1 DEF SetVars, OnePhase, Active, CancelledIsMarked, NotOverdueStays
  <1>9. queue # <<>> => Head(queue) \in Queued /\ Head(queue) \in Requests
                        /\ ElementsOf(Tail(queue)) = Queued \ {Head(queue)}
    BY OfTail DEF Structure, QueueOK, Queued
  <1>10. CASE AnswerLate
    <2>1. /\ queue # <<>> /\ queue' = Tail(queue) /\ SendRpcReply(Head(queue), "timeout")
          /\ UNCHANGED <<rpcThread, request, received>>
          /\ UNCHANGED <<tableVars, watcherVars, messageVars, deviceVars, envVars>>
      BY <1>10 DEF AnswerLate, platformVars
    <2>2. ElementsOf(replied') = ElementsOf(replied) \cup {<<Head(queue), "timeout">>}
      BY <1>9, <2>1, NotSaidYet, ReplyQueued DEF Structure, Kinds
    <2>3. UNCHANGED <<Cancelled, Answered>> /\ Ended' = Ended \cup {Head(queue)}
      BY <1>9, <2>1, <2>2, SaidSoFar DEF Kinds
    <2>4. UNCHANGED <<Held, Waiting>> /\ Queued' = Queued \ {Head(queue)}
      BY <1>9, <2>1, SetsUnchanged DEF Queued
    <2>5. QED
      BY <1>2, <1>3, <1>9, <2>1, <2>3, <2>4 DEF OnePhase
  <1>11. CASE Requeue
    <2>1. /\ queue # <<>> /\ queue' = Append(Tail(queue), Head(queue))
          /\ UNCHANGED <<rpcThread, request, received, replied>>
          /\ UNCHANGED <<tableVars, watcherVars, messageVars, deviceVars, envVars>>
      BY <1>11 DEF Requeue, platformVars, replyVars
    <2>2. Queued' = Queued
      BY <2>1, OfRotation DEF Queued, Structure, QueueOK
    <2>3. UNCHANGED <<Held, Waiting, Cancelled, Answered, Ended>>
      BY <2>1, SetsUnchanged
    <2>4. QED
      BY <1>2, <1>3, <2>1, <2>2, <2>3 DEF OnePhase
  <1>12. CASE FindDevice
    <2>1. /\ queue # <<>> /\ queue' = Tail(queue) /\ request' = Head(queue)
          /\ rpcThread = "idle" /\ rpcThread' = "found" /\ UNCHANGED <<received, replied>>
          /\ UNCHANGED <<tableVars, watcherVars, messageVars, deviceVars, envVars>>
      BY <1>12 DEF FindDevice, platformVars, replyVars
    <2>2. Queued' = Queued \ {Head(queue)} /\ Held' = {Head(queue)} /\ UNCHANGED Waiting
      BY <1>9, <2>1 DEF Queued, Held, Waiting
    <2>3. UNCHANGED <<Cancelled, Answered, Ended>>
      BY <2>1, SetsUnchanged
    <2>4. QED
      BY <1>2, <1>3, <1>9, <2>1, <2>2, <2>3 DEF OnePhase
  <1>13. CASE LookUpFails \/ Unhandled
    <2>1. /\ UNCHANGED <<queue, received, replied>> /\ rpcThread = "found"
          /\ \/ rpcThread' = "dead" /\ request' = request
             \/ rpcThread' = "idle"
          /\ UNCHANGED <<tableVars, watcherVars, messageVars, deviceVars, envVars>>
      BY <1>13 DEF LookUpFails, Unhandled, platformVars, replyVars
    <2>2. UNCHANGED <<Queued, Waiting>> /\ Held' \subseteq Held
      BY <2>1 DEF Held, Waiting, Queued
    <2>3. UNCHANGED <<Cancelled, Answered, Ended>>
      BY <2>1, SetsUnchanged
    <2>4. QED
      BY <1>2, <1>3, <2>1, <2>2, <2>3 DEF OnePhase
  <1>14. CASE HandleOneWay
    <2>1. /\ UNCHANGED <<queue, received>> /\ rpcThread = "found" /\ rpcThread' = "idle"
          /\ SendRpcReply(request, "ack")
          /\ UNCHANGED <<tableVars, watcherVars, messageVars, deviceVars, envVars>>
      BY <1>14 DEF HandleOneWay, platformVars
    <2>2. request \in Requests /\ ElementsOf(replied') = ElementsOf(replied) \cup {<<request, "ack">>}
      BY <2>1, NotSaidYet, ReplyQueued DEF Structure, Kinds
    <2>3. UNCHANGED <<Cancelled, Answered>> /\ Ended' = Ended \cup {request}
      BY <2>2, SaidSoFar DEF Kinds
    <2>4. UNCHANGED <<Queued, Waiting>> /\ Held = {request} /\ Held' = {}
      BY <2>1 DEF Queued, Waiting, Held
    <2>5. QED
      BY <1>2, <1>3, <2>1, <2>3, <2>4 DEF OnePhase
  <1>15. CASE HandleTwoWay
    <2>1. /\ rpcThread = "found" /\ rpcThread' = "waiting" /\ request \in TwoWay
          /\ registerQueue' = Append(registerQueue, request)
          /\ UNCHANGED <<queue, received, replied, request, table, marked>>
          /\ UNCHANGED <<watcherVars, messageVars, deviceVars, envVars>>
      BY <1>15 DEF HandleTwoWay, platformVars, replyVars
    <2>2. Registering' = Registering \cup {request}
      BY <2>1, OfAppend DEF Registering, Structure, DictionaryOK
    <2>3. Held = {request} /\ Held' = {} /\ Waiting = {} /\ Waiting' = {request}
      BY <2>1 DEF Held, Waiting
    <2>4. UNCHANGED <<Queued, InProgress, Copied, Cancelling, Cancelled, Answered, Ended>>
      BY <2>1, SetsUnchanged
    <2>5. UNCHANGED <<received, marked, overdue, published, answered, watcher, messageThread, answering>>
      BY <2>1
    <2>6. QED
      BY <2>2, <2>3, <2>4, <2>5 DEF OnePhase, Active, CancelledIsMarked, NotOverdueStays
  <1>16. CASE PublishTwoWay
    <2>1. /\ rpcThread = "waiting" /\ rpcThread' = "idle" /\ published' = published \cup {request}
          /\ request \in InProgress
          /\ UNCHANGED <<queue, received, replied, answered>>
          /\ UNCHANGED <<tableVars, watcherVars, messageVars, envVars>>
      BY <1>16 DEF PublishTwoWay, platformVars, replyVars, InProgress
    <2>2. Held = {} /\ Held' = {} /\ Waiting = {request} /\ Waiting' = {}
      BY <2>1 DEF Held, Waiting
    <2>3. UNCHANGED <<Queued, Registering, InProgress, Copied, Cancelling, Cancelled, Answered, Ended>>
      BY <2>1, SetsUnchanged
    <2>4. UNCHANGED <<received, marked, overdue, answered, watcher, messageThread, answering>>
      BY <2>1
    <2>5. QED
      BY <2>1, <2>2, <2>3, <2>4 DEF OnePhase, Active, CancelledIsMarked, NotOverdueStays
  <1>17. QED
    BY <1>4, <1>6, <1>7, <1>8, <1>10, <1>11, <1>12, <1>13, <1>14, <1>15, <1>16 DEF RpcThreadNext

(* The watcher, the answers of the devices, and the environment.            *)
LEMMA WatcherKeepsPhases ==
    ASSUME IInv, [Next]_vars
    PROVE  WatcherNext => Phases'
  <1> USE DEF IInv, Phases, tableVars, watcherVars, messageVars, deviceVars, envVars, rpcVars, platformVars
  <1>1. Structure
    OBVIOUS
  <1>2. UNCHANGED SetVars /\ (watcher' = "copied" => watcher = "copied")
        /\ UNCHANGED <<messageThread, answering>> => Phases'
    BY DEF SetVars, OnePhase, Active, CancelledIsMarked, NotOverdueStays
  <1>3. UNCHANGED <<rpcVars, received, messageVars, deviceVars, envVars>> =>
           UNCHANGED <<Queued, Held, Waiting, received, overdue, published, answered, messageThread, answering>>
    BY SetsUnchanged
  <1>4. CASE CallsBegin \/ CallScheduled \/ CallsRaise \/ TurnEnds \/ WatchBegin \/ PassEntry \/ WatchRaises
    <2>1. /\ UNCHANGED <<rpcVars, received, tableVars, messageVars, deviceVars, envVars>>
          /\ watcher \notin {"copied", "cancelled"} /\ watcher' \notin {"copied", "cancelled"}
          /\ UNCHANGED replied
      BY <1>4 DEF CallsBegin, CallScheduled, CallsRaise, TurnEnds, CallsVars, CallsDone, WatchBegin,
                  PassEntry, AtEntry, Scanning, WatchRaises, replyVars
    <2>2. UNCHANGED SetVars
      BY <1>3, <2>1, SetsUnchanged DEF SetVars
    <2>3. QED
      BY <1>2, <2>1, <2>2
  <1>5. CASE CancelEntry
    <2>1. /\ AtEntry /\ Entry \in overdue \ marked /\ SendRpcReply(Entry, "cancel")
          /\ copy' = <<Entry>> /\ watcher = "scan" /\ watcher' = "cancelled"
          /\ UNCHANGED <<rpcVars, received, tableVars, messageVars, deviceVars, envVars>>
      BY <1>5 DEF CancelEntry, AtEntry, Scanning
    <2>2. Entry \in InProgress /\ Entry \in Requests
      <3>1. /\ scanned \in Nat /\ scanned < Len(table) /\ table \in Seq(TwoWay)
        BY <2>1 DEF AtEntry, Structure, ThreadOK, DictionaryOK
      <3>2. Len(table) \in Nat
        BY <3>1, LenProperties
      <3>3. scanned + 1 \in 1..Len(table)
        BY <3>1, <3>2
      <3>4. Entry \in ElementsOf(table) /\ Entry \in TwoWay
        BY <3>1, <3>3, ElementsIn, ElementOfSeq DEF Entry
      <3>5. QED
        BY <3>4 DEF InProgress
    <2>3. PICK e : e = Entry
      OBVIOUS
    <2>4. e \in InProgress /\ e \in Requests /\ e \in overdue /\ copy' = <<e>>
      BY <2>1, <2>2, <2>3
    <2>5. Copied = {} /\ Copied' = {} /\ Cancelling = {} /\ Cancelling' = {e}
      <3>1. ElementsOf(<<e>>) = {e}
        BY DEF ElementsOf
      <3>2. QED
        BY <2>1, <2>4, <3>1 DEF Copied, Cancelling
    <2>6. Cancelled' = Cancelled \cup {e} /\ UNCHANGED <<Answered, Ended>>
      <3>1. ElementsOf(replied') = ElementsOf(replied) \cup {<<e, "cancel">>}
        <4>1. SendRpcReply(e, "cancel") /\ ~SaidTo(e, "cancel")
          BY <2>1, <2>3, NotSaidYet
        <4>2. QED
          BY <2>4, <4>1, ReplyQueued DEF Structure, Kinds
      <3>2. e \in Requests /\ "cancel" \in Kinds
        BY <2>4 DEF Kinds
      <3>3. /\ Cancelled' = Cancelled \cup (IF "cancel" = "cancel" THEN {e} ELSE {})
            /\ Answered' = Answered \cup (IF "cancel" = "answer" THEN {e} ELSE {})
            /\ Ended' = Ended \cup (IF "cancel" \in {"timeout", "ack", "gateway"} THEN {e} ELSE {})
        BY ONLY <3>1, <3>2, SaidSoFar
      <3>4. QED
        BY <3>3
    <2>7. UNCHANGED <<Queued, Held, Waiting, Registering, InProgress, marked, received, overdue, published,
                      answered, messageThread, answering>>
      BY <1>3, <2>1, SetsUnchanged
    <2>8. QED
      BY <2>1, <2>4, <2>5, <2>6, <2>7 DEF OnePhase, Active, CancelledIsMarked, NotOverdueStays
  <1>6. CASE MarkEntry
    <2> DEFINE r == copy[1]
    <2>1. /\ marked' = marked \cup {r} /\ watcher = "cancelled" /\ watcher' = "scan"
          /\ UNCHANGED <<registerQueue, copy, replied>>
          /\ UNCHANGED <<rpcVars, received, messageVars, deviceVars, envVars>>
      BY <1>6 DEF MarkEntry, replyVars
    <2>2. r \in TwoWay /\ Cancelling = {r}
      <3>1. copy \in Seq(TwoWay) /\ Len(copy) = 1
        BY <2>1 DEF Structure, DictionaryOK
      <3>2. DOMAIN copy = {1}
        BY <3>1, LenProperties
      <3>3. QED
        BY <2>1, <3>1, <3>2, ElementOfSeq DEF Cancelling, ElementsOf
    <2>3. IF r \in ElementsOf(table) THEN table' = table ELSE table' = Append(table, r)
      BY <1>6 DEF MarkEntry
    <2> HIDE DEF r
    <2>4. InProgress' = InProgress \cup {r}
      <3>1. CASE r \in ElementsOf(table)
        BY <2>3, <3>1 DEF InProgress
      <3>2. CASE r \notin ElementsOf(table)
        BY <2>2, <2>3, <3>2, OfAppend DEF InProgress, Structure, DictionaryOK
      <3>3. QED
        BY <3>1, <3>2
    <2>5. Copied = {} /\ Copied' = {} /\ Cancelling' = {}
      BY <2>1 DEF Copied, Cancelling
    <2>6. UNCHANGED <<Queued, Held, Waiting, Registering, Cancelled, Answered, Ended, received, overdue,
                      published, answered, messageThread, answering>>
      BY <1>3, <2>1, SetsUnchanged
    <2>7. r \in Cancelled /\ r \in overdue
      BY <2>2 DEF CancelledIsMarked
    <2>8. QED
      BY <2>1, <2>2, <2>4, <2>5, <2>6, <2>7 DEF OnePhase, Active, CancelledIsMarked, NotOverdueStays
  <1>7. CASE CopyTable
    <2>1. /\ copy' \in Shortened(table) /\ IsWithout(copy', table, marked)
          /\ watcher = "scan" /\ watcher' = "copied" /\ UNCHANGED replied
          /\ UNCHANGED <<rpcVars, received, tableVars, messageVars, deviceVars, envVars>>
      BY <1>7 DEF CopyTable, Scanning, replyVars
    <2>2. Copied = {} /\ Copied' = InProgress \ marked /\ Cancelling = {} /\ Cancelling' = {}
      BY <2>1, OfWithout DEF Copied, Cancelling, InProgress, Structure, DictionaryOK
    <2>3. UNCHANGED <<Queued, Held, Waiting, Registering, InProgress, marked, Cancelled, Answered, Ended,
                      received, overdue, published, answered, messageThread, answering>>
      BY <1>3, <2>1, SetsUnchanged
    <2>4. QED
      BY <2>1, <2>2, <2>3 DEF OnePhase, Active, CancelledIsMarked, NotOverdueStays
  <1>8. CASE AssignTable /\ registerQueue = <<>>
    <2>1. /\ watcher = "copied" /\ watcher' = "idle" /\ table' = copy /\ marked' = {}
          /\ UNCHANGED <<registerQueue, copy, replied>>
          /\ UNCHANGED <<rpcVars, received, messageVars, deviceVars, envVars>>
      BY <1>8 DEF AssignTable, replyVars
    <2>2. InProgress' = Copied /\ Copied' = {} /\ Cancelling = {} /\ Cancelling' = {}
      BY <2>1 DEF InProgress, Copied, Cancelling
    <2>3. UNCHANGED <<Queued, Held, Waiting, Registering, Cancelled, Answered, Ended,
                      received, overdue, published, answered, messageThread, answering>>
      BY <1>3, <2>1, SetsUnchanged
    <2>4. QED
      BY <2>1, <2>2, <2>3 DEF OnePhase, Active, CancelledIsMarked, NotOverdueStays
  <1>9. CASE AssignTable /\ registerQueue # <<>>
    <2> DEFINE r == Head(registerQueue)
    <2>1. /\ watcher = "copied" /\ watcher' = "idle" /\ table' = Append(table, r)
          /\ registerQueue' = Tail(registerQueue)
          /\ UNCHANGED <<marked, copy, replied>>
          /\ UNCHANGED <<rpcVars, received, messageVars, deviceVars, envVars>>
      BY <1>9 DEF AssignTable, replyVars
    <2>2. r \in Registering /\ r \in TwoWay /\ Registering' = Registering \ {r}
      BY <1>9, <2>1, OfTail DEF Registering, Structure, DictionaryOK
    <2> HIDE DEF r
    <2>3. InProgress' = InProgress \cup {r}
      BY <2>1, <2>2, OfAppend DEF InProgress, Structure, DictionaryOK
    <2>4. Copied' = {} /\ Cancelling = {} /\ Cancelling' = {}
      BY <2>1 DEF Copied, Cancelling
    <2>5. UNCHANGED <<Queued, Held, Waiting, Cancelled, Answered, Ended,
                      received, overdue, published, answered, messageThread, answering>>
      BY <1>3, <2>1, SetsUnchanged
    <2>6. QED
      BY <2>1, <2>2, <2>3, <2>4, <2>5 DEF OnePhase, Active, CancelledIsMarked, NotOverdueStays
  <1>10. QED
    BY <1>4, <1>5, <1>6, <1>7, <1>8, <1>9 DEF WatcherNext

LEMMA OthersKeepPhases ==
    ASSUME IInv, [Next]_vars
    PROVE  /\ \A r \in TwoWay : IgnoreAnswer(r) \/ ForwardAnswer(r) \/ AnswerRaises(r) => Phases'
           /\ \A r \in Requests : BecomeOverdue(r) => Phases'
           /\ PopAnswered \/ TakeReply \/ FinishReply \/ ChangeConnection \/ UNCHANGED vars => Phases'
           /\ \A d \in Devices : ChangeDevice(d) => Phases'
  <1> USE DEF IInv, Phases, tableVars, watcherVars, messageVars, deviceVars, envVars, rpcVars, platformVars
  <1>1. Structure
    OBVIOUS
  <1>2. UNCHANGED <<rpcVars, registerQueue, received, watcherVars>> =>
           UNCHANGED <<Queued, Held, Waiting, Registering, Copied, Cancelling, received, watcher>>
    BY SetsUnchanged
  <1>3. ASSUME NEW r \in TwoWay, IgnoreAnswer(r) \/ AnswerRaises(r) PROVE Phases'
    <2>1. /\ answered' = answered \cup {r} /\ messageThread = "idle" /\ messageThread' # "popping"
          /\ UNCHANGED <<rpcVars, tableVars, watcherVars, received, overdue, published, replied>>
      BY <1>3 DEF IgnoreAnswer, AnswerRaises, replyVars
    <2>2. UNCHANGED <<Queued, Held, Waiting, Registering, InProgress, Copied, Cancelling, received, watcher,
                      Cancelled, Answered, Ended, marked, overdue, published>>
      BY <1>2, <2>1, SetsUnchanged
    <2>3. QED
      BY <2>1, <2>2 DEF OnePhase, Active, CancelledIsMarked, NotOverdueStays
  <1>4. ASSUME NEW r \in TwoWay, ForwardAnswer(r) PROVE Phases'
    <2>1. /\ answered' = answered \cup {r} /\ answering' = r /\ r \notin answered
          /\ SendRpcReply(r, "answer")
          /\ UNCHANGED <<rpcVars, tableVars, watcherVars, received, overdue, published>>
      BY <1>4 DEF ForwardAnswer
    <2>2. ElementsOf(replied') = ElementsOf(replied) \cup {<<r, "answer">>}
      BY <2>1, NotSaidYet, ReplyQueued DEF Structure, Kinds
    <2>3. Answered' = Answered \cup {r} /\ UNCHANGED <<Cancelled, Ended>>
      BY <2>2, SaidSoFar DEF Kinds
    <2>4. UNCHANGED <<Queued, Held, Waiting, Registering, InProgress, Copied, Cancelling, received, watcher,
                      marked, overdue, published>>
      BY <1>2, <2>1, SetsUnchanged
    <2>5. QED
      BY <2>1, <2>3, <2>4 DEF OnePhase, Active, CancelledIsMarked, NotOverdueStays
  <1>5. CASE PopAnswered
    <2>1. /\ table' \in Shortened(table) /\ IsWithout(table', table, {answering})
          /\ marked' = marked \ {answering} /\ messageThread = "popping" /\ messageThread' = "idle"
          /\ UNCHANGED <<rpcVars, registerQueue, watcherVars, received, overdue, published, answered, replied>>
      BY <1>5 DEF PopAnswered, replyVars
    <2>2. InProgress' = InProgress \ {answering}
      BY <2>1, OfWithout DEF InProgress, Structure, DictionaryOK
    <2>3. answering \in answered /\ answering \in published
      BY <2>1 DEF NotOverdueStays, Structure, DictionaryOK
    <2>4. UNCHANGED <<Queued, Held, Waiting, Registering, Copied, Cancelling, received, watcher,
                      Cancelled, Answered, Ended, overdue, published, answered>>
      BY <1>2, <2>1, SetsUnchanged
    <2>5. QED
      BY <2>1, <2>2, <2>3, <2>4 DEF OnePhase, Active, CancelledIsMarked, NotOverdueStays
  <1>6. ASSUME NEW r \in Requests, BecomeOverdue(r) PROVE Phases'
    <2>1. /\ overdue' = overdue \cup {r}
          /\ UNCHANGED <<rpcVars, tableVars, watcherVars, messageVars, deviceVars, received, replied>>
      BY <1>6 DEF BecomeOverdue, replyVars
    <2>2. UNCHANGED <<Queued, Held, Waiting, Registering, InProgress, Copied, Cancelling, received, watcher,
                      Cancelled, Answered, Ended, marked, published, answered, messageThread, answering>>
      BY <1>2, <2>1, SetsUnchanged
    <2>3. QED
      BY <2>1, <2>2 DEF OnePhase, Active, CancelledIsMarked, NotOverdueStays
  <1>7. UNCHANGED <<rpcVars, tableVars, watcherVars, messageVars, deviceVars, overdue, received, replied>>
           => Phases'
    <2>1. SUFFICES ASSUME UNCHANGED <<rpcVars, tableVars, watcherVars, messageVars, deviceVars, overdue,
                                      received, replied>>
                   PROVE  Phases'
      OBVIOUS
    <2>2. UNCHANGED <<Queued, Held, Waiting, Registering, InProgress, Copied, Cancelling, received, watcher,
                      Cancelled, Answered, Ended, marked, overdue, published, answered, messageThread,
                      answering>>
      BY <1>2, <2>1, SetsUnchanged
    <2>3. QED
      BY <2>2 DEF OnePhase, Active, CancelledIsMarked, NotOverdueStays
  <1>8. CASE TakeReply \/ FinishReply \/ ChangeConnection \/ UNCHANGED vars
    BY <1>7, <1>8 DEF TakeReply, FinishReply, ChangeConnection, vars, replyVars
  <1>9. ASSUME NEW d \in Devices, ChangeDevice(d) PROVE Phases'
    BY <1>7, <1>9 DEF ChangeDevice, replyVars
  <1>10. QED
    BY <1>3, <1>4, <1>5, <1>6, <1>8, <1>9

LEMMA Invariant == Spec => []IInv
  <1>1. Init => IInv
    BY InitIInv
  <1>2. IInv /\ [Next]_vars => IInv'
    <2> SUFFICES ASSUME IInv, [Next]_vars PROVE IInv'
      OBVIOUS
    <2>1. Structure'
      BY NextKeepsFlags, NextKeepsQueues, NextKeepsThreads, NextKeepsReplies, NextKeepsDictionary
         DEF IInv, Structure
    <2>2. Phases'
      BY RpcThreadKeepsPhases, WatcherKeepsPhases, OthersKeepPhases DEF Next
    <2>3. QED
      BY <2>1, <2>2 DEF IInv
  <1>3. QED
    BY <1>1, <1>2, PTL DEF Spec

-----------------------------------------------------------------------------
(* Whatever the RPC thread, the watcher, the message thread and the time do *)
(* in between, a request gets no reply twice, and one answered 408 or       *)
(* acknowledged is neither cancelled nor answered later.                    *)
THEOREM NoReplyTwice == Spec => []RepliesBounded
  BY Invariant, IInvImplies, PTL

(* A request sent to its device is in the dictionary as long as it is       *)
(* neither overdue nor answered, for all the copies the watcher assigns,    *)
(* and the RPC thread never waits for one that is nowhere.                  *)
THEOREM AnswerFindsItsEntry == Spec => []AnswerIsExpected
  BY Invariant, IInvImplies, PTL

-----------------------------------------------------------------------------
(* The connection                                                          *)

FlagTypeOK ==
    /\ sessionUp \in BOOLEAN /\ isConnected \in BOOLEAN /\ rateLimits \in BOOLEAN
    /\ loopAlive \in BOOLEAN /\ stopped \in BOOLEAN /\ paused \in BOOLEAN
    /\ connecting \in BOOLEAN /\ initialDone \in BOOLEAN /\ stopEvent \in BOOLEAN

PlaceTypeOK ==
    /\ lock \in Threads \cup {Nobody}
    /\ pc \in [Threads -> {"call", "loop", "done", "check", "wait", "ended"}]
    /\ pc[Main] \in {"call", "loop", "done"}
    /\ pc[Supervisor] \in {"check", "call", "loop", "wait", "ended"}
    /\ stopPc \in {"none", "paused", "disconnected", "stopped"}
    /\ faults \in 0..MaxFaults /\ refused \in 0..MaxRefused

\* The start-up thread has passed the head of connect() once there is a network
\* loop, a first connection or someone who stops the client.
StartupBegan ==
    /\ loopAlive \/ initialDone => pc[Main] # "call"
    /\ stopPc # "none" => pc[Main] = "done"

\* The supervisor comes to connect() only when the start-up thread has left it.
SupervisorSecond == pc[Supervisor] \in {"call", "loop"} => pc[Main] = "done"

\* The lock and the flag belong to the thread in the retry loop.
LockHeld ==
    /\ \A t \in Threads : pc[t] = "loop" <=> lock = t
    /\ connecting <=> lock # Nobody

\* A supervisor about to decide whether to connect sees that it was stopped.
StopIsSeen ==
    /\ stopEvent => stopPc = "stopped"
    /\ stopEvent /\ pc[Supervisor] = "check" => stopped

Ordered == PlaceTypeOK /\ StartupBegan /\ SupervisorSecond /\ LockHeld /\ StopIsSeen
ClientInv == FlagTypeOK /\ Ordered

USE TBClientAssumption DEF TBClientAssumption, Threads, Main, Supervisor, Nobody

(* The two parts of the type, and the invariant the runs check.             *)
LEMMA ClientInvImplies == ClientInv => OneConnectLoop
  <1> SUFFICES ASSUME ClientInv PROVE OneConnectLoop
    OBVIOUS
  <1>1. TBClientTypeOK
    BY Zenon DEF ClientInv, Ordered, FlagTypeOK, PlaceTypeOK, TBClientTypeOK
  <1>2. \A t, u \in Threads : pc[t] \in {"call", "loop"} /\ pc[u] = "loop" => t = u
    BY SMT DEF ClientInv, Ordered, PlaceTypeOK, SupervisorSecond
  <1>3. connecting <=> \E t \in Threads : pc[t] = "loop"
    BY SMT DEF ClientInv, Ordered, PlaceTypeOK, LockHeld
  <1>4. QED
    BY <1>1, <1>2, <1>3 DEF OneConnectLoop

LEMMA ClientInitKeeps == ClientInit => ClientInv
  <1>1. ClientInit => FlagTypeOK
    BY Zenon DEF ClientInit, FlagTypeOK
  <1>2. ClientInit => Ordered
    BY SMT DEF ClientInit, Ordered, PlaceTypeOK, StartupBegan, SupervisorSecond, LockHeld, StopIsSeen
  <1>3. QED
    BY <1>1, <1>2 DEF ClientInv

LEMMA NextKeepsFlagTypes ==
    ASSUME FlagTypeOK, [ClientNext]_connectionVars
    PROVE  FlagTypeOK'
  <1> USE DEF FlagTypeOK, clientVars, flagVars
  <1>1. ASSUME NEW t \in Threads, ThreadStep(t) PROVE FlagTypeOK'
    <2>1. CASE EnterConnect(t)
      BY <2>1, Zenon DEF EnterConnect
    <2>2. CASE SendConnect(t)
      BY <2>2, Zenon DEF SendConnect
    <2>3. CASE LeaveConnect(t)
      BY <2>3, Zenon DEF LeaveConnect
    <2>4. QED
      BY <1>1, <2>1, <2>2, <2>3 DEF ThreadStep
  <1>2. CASE RunCheck \/ RunWait
    BY <1>2, Zenon DEF RunCheck, RunWait
  <1>3. CASE Stopping
    BY <1>3, Zenon DEF Stopping, Disconnect, DisconnectClient, Stop
  <1>4. CASE Paho
    <2>1. CASE OnConnect
      BY <2>1, Zenon DEF OnConnect
    <2>2. CASE RateLimitsReceived \/ OnDisconnect \/ LoopDies
      BY <2>2, Zenon DEF RateLimitsReceived, OnDisconnect, LoopDies
    <2>3. QED
      BY <1>4, <2>1, <2>2 DEF Paho
  <1>5. CASE UNCHANGED connectionVars
    BY <1>5, Zenon DEF connectionVars
  <1>6. QED
    BY <1>1, <1>2, <1>3, <1>4, <1>5 DEF ClientNext

(* connect(), by either thread.                                             *)
LEMMA ConnectKeepsOrder ==
    ASSUME ClientInv, NEW t \in Threads, ThreadStep(t)
    PROVE  Ordered'
  <1> USE DEF ClientInv, Ordered, PlaceTypeOK, StartupBegan, SupervisorSecond, LockHeld, StopIsSeen,
              clientVars, flagVars
  <1>1. CASE EnterConnect(t)
    BY <1>1, SMT DEF EnterConnect
  <1>2. CASE SendConnect(t)
    <2>1. refused' \in 0..MaxRefused
      <3>1. refused' = refused \/ (refused < MaxRefused /\ refused' = refused + 1)
        BY <1>2, Zenon DEF SendConnect
      <3>2. QED
        BY <3>1, SMT
    <2>2. pc[Main] # "call"
      BY <1>2, SMT DEF SendConnect
    <2>3. UNCHANGED <<flagVars, lock, pc, stopPc, faults>>
      BY <1>2 DEF SendConnect
    <2>4. QED
      BY <2>1, <2>2, <2>3, SMT
  <1>3. CASE LeaveConnect(t)
    BY <1>3, SMT DEF LeaveConnect
  <1>4. QED
    BY <1>1, <1>2, <1>3 DEF ThreadStep

LEMMA NextKeepsOrder ==
    ASSUME ClientInv, [ClientNext]_connectionVars
    PROVE  Ordered'
  <1> USE DEF ClientInv, Ordered, PlaceTypeOK, StartupBegan, SupervisorSecond, LockHeld, StopIsSeen,
              clientVars, flagVars
  <1>1. CASE \E t \in Threads : ThreadStep(t)
    BY <1>1, ConnectKeepsOrder
  <1>2. CASE RunCheck
    BY <1>2, SMT DEF RunCheck, ShouldSuperviseReconnect
  <1>3. CASE RunWait
    BY <1>3, SMT DEF RunWait
  <1>4. CASE Disconnect
    BY <1>4, SMT DEF Disconnect
  <1>5. CASE DisconnectClient
    BY <1>5, SMT DEF DisconnectClient
  <1>6. CASE Stop
    BY <1>6, SMT DEF Stop
  <1>7. CASE OnConnect
    BY <1>7, SMT DEF OnConnect
  <1>8. CASE RateLimitsReceived
    BY <1>8, SMT DEF RateLimitsReceived
  <1>9. CASE OnDisconnect
    BY <1>9, SMT DEF OnDisconnect
  <1>10. CASE LoopDies
    BY <1>10, SMT DEF LoopDies
  <1>11. CASE UNCHANGED connectionVars
    BY <1>11, SMT DEF connectionVars
  <1>12. QED
    BY <1>1, <1>2, <1>3, <1>4, <1>5, <1>6, <1>7, <1>8, <1>9, <1>10, <1>11
       DEF ClientNext, Stopping, Paho

LEMMA ClientNextKeeps == ClientInv /\ [ClientNext]_connectionVars => ClientInv'
  BY NextKeepsFlagTypes, NextKeepsOrder DEF ClientInv

(* connect() and run(): whatever the network loop and the stopper do, the    *)
(* start-up thread and the supervisor are not both at the connection.        *)
THEOREM OneLoopDrives == ClientSpec => []OneConnectLoop
  BY ClientInitKeeps, ClientNextKeeps, ClientInvImplies, PTL DEF ClientSpec

(* run() decides on no connect() after stop(), although a connect() that was *)
(* under way clears the flag: a supervisor that comes to its check with the  *)
(* event set finds the flag set, too, since the start-up thread is done.     *)
THEOREM StopIsFinal == ClientSpec => NoConnectDecidedAfterStop
  <1> DEFINE Kept == stopEvent /\ pc'[Supervisor] = "call" => pc[Supervisor] = "call"
  <1>1. ASSUME ClientInv, [ClientNext]_connectionVars PROVE [Kept]_connectionVars
    <2> USE <1>1 DEF ClientInv, Ordered, PlaceTypeOK, StartupBegan, SupervisorSecond, LockHeld, StopIsSeen
    <2>1. CASE \E t \in Threads : ThreadStep(t)
      <3>1. PICK t \in Threads : ThreadStep(t)
        BY <2>1
      <3>2. pc' = pc \/ pc' = [pc EXCEPT ![t] = "loop"]
               \/ pc' = [pc EXCEPT ![t] = IF t = Main THEN "done" ELSE "wait"]
        BY <3>1 DEF ThreadStep, EnterConnect, SendConnect, LeaveConnect
      <3>3. QED
        BY <3>2, SMT
    <2>2. CASE RunCheck
      BY <2>2, SMT DEF RunCheck
    <2>3. CASE RunWait
      BY <2>3, SMT DEF RunWait
    <2>4. CASE Stopping \/ Paho
      <3>1. pc' = pc
        BY <2>4, Zenon DEF Stopping, Paho, Disconnect, DisconnectClient, Stop, OnConnect,
           RateLimitsReceived, OnDisconnect, LoopDies
      <3>2. QED
        BY <3>1
    <2>5. CASE UNCHANGED connectionVars
      BY <2>5
    <2>6. QED
      BY <1>1, <2>1, <2>2, <2>3, <2>4, <2>5 DEF ClientNext
  <1>2. QED
    BY <1>1, ClientInitKeeps, ClientNextKeeps, PTL DEF ClientSpec, NoConnectDecidedAfterStop
=============================================================================
