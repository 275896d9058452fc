---------------------------- MODULE PubsubProofs ----------------------------
(***************************************************************************)
(* Proofs about Pubsub, as MCNotifications instantiates it: no             *)
(* acknowledgement goes astray, destroy frees an unused channel, and the   *)
(* code implements Broadcast.                                              *)
(***************************************************************************)
EXTENDS MCNotifications, QueueLemmas

\* Who is suspended in the channel, and what was written to the eventfds: the
\* status to the subscribers that were there when it was set, and to the
\* publisher or destroyer when the last of them has run.
WriteInv ==
  /\ \A c \in Reader : pc[c] = "run" => p_count[c] = 0
  /\ \A c \in P!Notified : p_count[c] = status
  /\ \A c \in Reader : pc[c] = "pub" <=> status = P!TRANS /\ pub_notifyfd = c
  /\ \A c \in Reader :
       pc[c] = "close" <=> status = P!CLOSE /\ ended = "no" /\ pub_notifyfd = c
  /\ status = P!EMPTY => P!Notified = {} /\ pub_notifyfd = None
  /\ status # P!EMPTY /\ ended = "no" =>
       /\ pub_notifyfd \in Reader
       /\ p_count[pub_notifyfd] = IF P!Notified = {} THEN status ELSE 0
  /\ status = P!TRANS => ended = "no" /\ msg \in Msg
  /\ status = P!CLOSE => \A c \in Reader : pc[c] = "sub" => c \in P!Notified

\* The inductive invariant.
PubInv ==
  /\ CountsAgree /\ FreedUnused
  /\ IsInjective(sublist)
  /\ WriteInv
  /\ owed = [c \in Reader |-> IF status = P!TRANS /\ c \in P!Notified THEN msg ELSE None]

\* The operators that Pubsub takes from the libraries are those of the lemmas.
LEMMA PubOps ==
  /\ \A S : P!Cardinality(S) = Cardinality(S)
  /\ \A s : P!Range(s) = Range(s)
  /\ \A s, e : P!Unlink(s, e) = Unlink(s, e)
  <1>1. \A S : P!Cardinality(S) = Cardinality(S)
    BY Zenon DEF P!Cardinality, Cardinality
  <1>2. \A s : P!Range(s) = Range(s)
    BY Zenon DEF P!Range, Range
  <1>3. \A s, e : P!Unlink(s, e) = Unlink(s, e)
    BY Zenon DEF P!Unlink, Unlink
  <1>. QED BY <1>1, <1>2, <1>3, Zenon

LEMMA ReaderCard ==
  ASSUME NEW T \in SUBSET Reader
  PROVE  /\ IsFiniteSet(T)
         /\ Cardinality(T) \in 0..Cardinality(Reader)
         /\ Cardinality(T) = 0 <=> T = {}
         /\ \A x \in T : Cardinality(T \ {x}) = Cardinality(T) - 1
  <1>1. IsFiniteSet(Reader) /\ Cardinality(Reader) \in Nat
    BY PubsubConstants, FS_CardinalityType, Zenon
  <1>2. IsFiniteSet(T) /\ Cardinality(T) <= Cardinality(Reader)
    BY <1>1, FS_Subset, Zenon
  <1>3. Cardinality(T) \in Nat
    BY <1>2, FS_CardinalityType, Zenon
  <1>4. Cardinality(T) = 0 <=> T = {}
    BY <1>2, FS_EmptySet, Zenon
  <1>5. \A x \in T : Cardinality(T \ {x}) = Cardinality(T) - 1
    BY <1>2, FS_RemoveElement, Zenon
  <1>. QED BY <1>1, <1>2, <1>3, <1>4, <1>5

LEMMA PubInit == P!Init => PubInv
  <1> SUFFICES ASSUME P!Init PROVE PubInv
    BY Zenon
  <1> USE DEF P!Init, P!EMPTY, P!TRANS, P!CLOSE
  <1>1. P!Notified = {} /\ Cardinality({}) = 0
    BY FS_EmptySet, Zenon DEF P!Notified
  <1>2. IsInjective(sublist) /\ Range(sublist) = {} /\ Len(sublist) = 0
    BY DEF IsInjective, Range
  <1>3. Cardinality(Reader) \in Nat
    BY PubsubConstants, FS_CardinalityType, Zenon
  <1>4. P!TypeOK
    BY <1>3, PubOps DEF P!TypeOK
  <1>5. CountsAgree /\ FreedUnused
    BY <1>1, <1>2, <1>4, PubOps, Zenon
    DEF CountsAgree, FreedUnused, P!CountsAgree, P!ListAgrees, P!AcksAgree, P!NotifySucceeds,
        P!FreedUnused
  <1>6. WriteInv
    BY <1>1, PubsubConstants DEF WriteInv
  <1>. QED BY <1>1, <1>2, <1>5, <1>6, Zenon DEF PubInv

LEMMA PubSubscribe ==
  ASSUME PubInv, NEW c \in Reader, NEW h \in BOOLEAN, P!Subscribe(c, h)
  PROVE  PubInv' /\ P!Notified' = P!Notified
  <1> USE DEF PubInv, CountsAgree, FreedUnused, P!CountsAgree, P!FreedUnused
  <1>1. /\ pc[c] = "run" /\ p_count[c] = 0 /\ ended = "no" /\ status # P!CLOSE
        /\ pc \in [Reader -> {"run", "sub", "pub", "close"}]
    BY Zenon DEF P!Subscribe, P!Running, WriteInv, P!TypeOK
  <1>2. c \notin Range(sublist) /\ sublist \in Seq(Reader)
    BY <1>1, PubOps, Zenon DEF P!ListAgrees, P!TypeOK
  <1>3. /\ sublist' \in Seq(Reader) /\ Len(sublist') = Len(sublist) + 1
        /\ IsInjective(sublist') /\ Range(sublist') = Range(sublist) \cup {c}
    BY <1>2, PushOnce DEF P!Subscribe
  <1>4. P!Notified' = P!Notified
    BY <1>1 DEF P!Subscribe, P!Notified
  <1>5. P!TypeOK'
    BY <1>1, <1>3 DEF P!Subscribe, P!TypeOK
  <1>6. P!ListAgrees' /\ P!AcksAgree' /\ P!NotifySucceeds'
    BY <1>1, <1>3, <1>4, PubOps, Zenon DEF P!Subscribe, P!ListAgrees, P!AcksAgree, P!NotifySucceeds, P!TypeOK
  <1>7. WriteInv'
    BY <1>1, <1>4, Zenon DEF P!Subscribe, WriteInv
  <1>8. P!FreedUnused' /\ owed' = [d \in Reader |->
          IF status' = P!TRANS /\ d \in P!Notified' THEN msg' ELSE None]
    BY <1>1, <1>4, Zenon DEF P!Subscribe
  <1>. QED BY <1>3, <1>4, <1>5, <1>6, <1>7, <1>8, Zenon

LEMMA PubPublish ==
  ASSUME PubInv, NEW c \in Reader, NEW m \in Msg, P!Publish(c, m)
  PROVE  PubInv' /\ P!Notified' = {d \in Reader : pc[d] = "sub"} /\ P!Notified' # {}
  <1> USE DEF PubInv, CountsAgree, FreedUnused, P!CountsAgree, P!FreedUnused,
              P!EMPTY, P!TRANS, P!CLOSE
  <1>1. /\ pc[c] = "run" /\ p_count[c] = 0 /\ ended = "no" /\ status = P!EMPTY
        /\ pc \in [Reader -> {"run", "sub", "pub", "close"}] /\ p_count \in [Reader -> Nat]
        /\ \A d \in Reader : pc[d] \in {"run", "sub"}
    BY DEF P!Publish, P!Running, WriteInv, P!TypeOK
  <1>2. /\ sublist \in Seq(Reader) /\ Range(sublist) = {d \in Reader : pc[d] = "sub"}
        /\ sub_num = Len(sublist) /\ sub_num \in Nat \ {0}
    BY <1>1, PubOps, Zenon DEF P!ListAgrees, P!TypeOK, P!Publish
  <1>3. \A d \in Reader : p_count[d] = 0
    BY <1>1 DEF WriteInv, P!Notified
  <1>5. p_count' = [d \in Reader |-> IF pc[d] = "sub" THEN 2 ELSE 0]
    BY <1>2, <1>3, PubOps, SMTT(60) DEF P!Publish, P!psc_subnotify
  <1>6. pc' = [pc EXCEPT ![c] = "pub"] /\ status' = P!TRANS /\ pub_notifyfd' = c /\ msg' = m
        /\ ack_rem' = sub_num /\ ended' = ended /\ sublist' = sublist /\ sub_num' = sub_num
    BY Zenon DEF P!Publish
  <1>7. P!Notified' = {d \in Reader : pc[d] = "sub"}
    BY <1>1, <1>5, <1>6 DEF P!Notified
  <1>8. Cardinality(P!Notified') = sub_num /\ P!Notified' # {}
    BY <1>2, <1>7, CardOnce, ReaderCard, Zenon
  <1>9. P!TypeOK'
    <2>1. sub_num \in 0..Cardinality(Reader)
      BY <1>7, <1>8, ReaderCard, Zenon
    <2>2. p_count' \in [Reader -> Nat] /\ p_timed' = p_timed
      BY <1>5 DEF P!Publish
    <2>. QED BY <1>1, <1>2, <1>6, <2>1, <2>2, PubOps, Zenon DEF P!TypeOK
  <1>10. P!ListAgrees' /\ P!AcksAgree' /\ P!NotifySucceeds'
    BY <1>1, <1>2, <1>6, <1>8, PubOps, Zenon DEF P!ListAgrees, P!AcksAgree, P!NotifySucceeds
  <1>11. WriteInv'
    BY <1>1, <1>5, <1>6, <1>7, <1>8, SMTT(60) DEF WriteInv
  <1>12. P!FreedUnused'
    BY <1>1, <1>6, Zenon
  <1>13. owed' = [d \in Reader |-> IF status' = P!TRANS /\ d \in P!Notified' THEN msg' ELSE None]
    BY <1>2, <1>6, <1>7, PubOps, SMTT(60) DEF P!Publish
  <1>. QED BY <1>6, <1>7, <1>8, <1>9, <1>10, <1>11, <1>12, <1>13, SMTT(60)

LEMMA PubPublishEnd ==
  ASSUME PubInv, NEW c \in Reader, P!PublishEnd(c)
  PROVE  /\ PubInv' /\ P!Notified = {} /\ P!Notified' = {} /\ status = P!TRANS
         /\ pub_notifyfd = c
  <1> USE DEF PubInv, CountsAgree, FreedUnused, P!CountsAgree, P!FreedUnused,
              P!EMPTY, P!TRANS, P!CLOSE
  <1>1. /\ pc[c] = "pub" /\ p_count[c] > 0 /\ status = P!TRANS /\ pub_notifyfd = c
        /\ ended = "no"
        /\ pc \in [Reader -> {"run", "sub", "pub", "close"}] /\ p_count \in [Reader -> Nat]
    BY Zenon DEF P!PublishEnd, WriteInv, P!TypeOK
  <1>2. P!Notified = {}
    BY <1>1 DEF WriteInv
  <1>3. /\ pc' = [pc EXCEPT ![c] = "run"] /\ p_count' = [p_count EXCEPT ![c] = 0]
        /\ status' = P!EMPTY /\ pub_notifyfd' = None
        /\ UNCHANGED <<msg, sub_num, ack_rem, sublist, p_timed, ended, owed>>
    BY Zenon DEF P!PublishEnd
  <1>4. P!Notified' = {}
    BY <1>1, <1>2, <1>3, Zenon DEF P!Notified
  <1>5. P!TypeOK'
    BY <1>1, <1>3, Zenon DEF P!TypeOK
  <1>6. P!ListAgrees' /\ P!AcksAgree' /\ P!NotifySucceeds'
    BY <1>1, <1>2, <1>3, <1>4, Zenon DEF P!ListAgrees, P!AcksAgree, P!NotifySucceeds
  <1>7. WriteInv'
    BY <1>1, <1>3, <1>4, PubsubConstants DEF WriteInv
  <1>8. owed' = [d \in Reader |-> IF status' = P!TRANS /\ d \in P!Notified' THEN msg' ELSE None]
    BY <1>2, <1>3, <1>4, Zenon
  <1>. QED BY <1>1, <1>2, <1>3, <1>4, <1>5, <1>6, <1>7, <1>8, SMTT(60)

LEMMA PubDestroy ==
  ASSUME PubInv, NEW c \in Reader, P!Destroy(c)
  PROVE  PubInv'
  <1> USE DEF PubInv, CountsAgree, FreedUnused, P!CountsAgree, P!FreedUnused,
              P!EMPTY, P!TRANS, P!CLOSE
  <1>1. /\ pc[c] = "run" /\ p_count[c] = 0 /\ ended = "no" /\ status = P!EMPTY
        /\ pc \in [Reader -> {"run", "sub", "pub", "close"}] /\ p_count \in [Reader -> Nat]
        /\ \A d \in Reader : pc[d] \in {"run", "sub"}
        /\ UNCHANGED <<msg, sub_num, sublist, p_timed, p_ret, owed>>
    BY DEF P!Destroy, P!Running, WriteInv, P!TypeOK
  <1>2. /\ sublist \in Seq(Reader) /\ Range(sublist) = {d \in Reader : pc[d] = "sub"}
        /\ sub_num = Len(sublist) /\ sub_num \in Nat
    BY <1>1, PubOps, Zenon DEF P!ListAgrees, P!TypeOK
  <1>3. \A d \in Reader : p_count[d] = 0
    BY <1>1 DEF WriteInv, P!Notified
  <1>4. CASE sub_num = 0
    <2>1. ended' = "freed" /\ UNCHANGED <<status, p_count, ack_rem, pub_notifyfd, pc>>
      BY <1>4, Zenon DEF P!Destroy
    <2>2. Range(sublist) = {}
      BY <1>2, <1>4, CardOnce, FS_EmptySet, Zenon
    <2>3. \A d \in Reader : pc[d] = "run"
      BY <1>1, <1>2, <2>2, Zenon
    <2>4. P!Notified' = P!Notified
      BY <2>1, Zenon DEF P!Notified
    <2>5. P!TypeOK' /\ P!ListAgrees' /\ P!AcksAgree' /\ P!NotifySucceeds'
      BY <1>1, <2>1, <2>4 DEF P!TypeOK, P!ListAgrees, P!AcksAgree, P!NotifySucceeds
    <2>6. WriteInv'
      BY <1>1, <2>1, <2>4 DEF WriteInv
    <2>. QED BY <1>1, <2>1, <2>3, <2>4, <2>5, <2>6, Zenon
  <1>5. CASE sub_num # 0
    <2>2. p_count' = [d \in Reader |-> IF pc[d] = "sub" THEN 3 ELSE 0]
      BY <1>2, <1>3, <1>5, PubOps DEF P!Destroy, P!psc_subnotify
    <2>3. /\ pc' = [pc EXCEPT ![c] = "close"] /\ status' = P!CLOSE /\ pub_notifyfd' = c
          /\ ack_rem' = sub_num /\ ended' = ended
      BY <1>5, Zenon DEF P!Destroy
    <2>4. P!Notified' = {d \in Reader : pc[d] = "sub"}
      BY <1>1, <2>2, <2>3 DEF P!Notified
    <2>5. Cardinality(P!Notified') = sub_num /\ P!Notified' # {}
      BY <1>2, <1>5, <2>4, CardOnce, ReaderCard, Zenon
    <2>6. sub_num \in 0..Cardinality(Reader)
      BY <2>4, <2>5, ReaderCard
    <2>7. P!TypeOK'
      BY <1>1, <1>2, <2>2, <2>3, <2>6, PubOps, SMTT(60) DEF P!TypeOK
    <2>8. P!ListAgrees' /\ P!AcksAgree' /\ P!NotifySucceeds'
      BY <1>1, <1>2, <2>3, <2>5, PubOps, SMTT(60) DEF P!ListAgrees, P!AcksAgree, P!NotifySucceeds
    <2>9. WriteInv'
      BY <1>1, <2>2, <2>3, <2>4, <2>5, SMTT(60) DEF WriteInv
    <2>. QED BY <1>1, <2>3, <2>7, <2>8, <2>9, SMTT(60)
  <1>. QED BY <1>4, <1>5, Zenon

LEMMA PubDestroyEnd ==
  ASSUME PubInv, NEW c \in Reader, P!DestroyEnd(c)
  PROVE  PubInv' /\ status = P!CLOSE /\ P!Notified' = {} /\ P!Notified = {}
  <1> USE DEF PubInv, CountsAgree, FreedUnused, P!CountsAgree, P!FreedUnused,
              P!EMPTY, P!TRANS, P!CLOSE
  <1>1. /\ pc[c] = "close" /\ p_count[c] > 0 /\ status = P!CLOSE /\ pub_notifyfd = c
        /\ ended = "no"
        /\ pc \in [Reader -> {"run", "sub", "pub", "close"}] /\ p_count \in [Reader -> Nat]
    BY Zenon DEF P!DestroyEnd, WriteInv, P!TypeOK
  <1>2. P!Notified = {}
    BY <1>1 DEF WriteInv
  <1>3. /\ pc' = [pc EXCEPT ![c] = "run"] /\ p_count' = [p_count EXCEPT ![c] = 0]
        /\ ended' = "freed"
        /\ UNCHANGED <<status, msg, pub_notifyfd, sub_num, ack_rem, sublist, p_timed, owed>>
    BY Zenon DEF P!DestroyEnd, P!channel
  <1>4. \A d \in Reader : pc'[d] = "run"
    BY <1>1, <1>2, <1>3, Zenon DEF WriteInv
  <1>5. P!Notified' = {}
    BY <1>4, Zenon DEF P!Notified
  <1>6. P!TypeOK'
    BY <1>1, <1>3, Zenon DEF P!TypeOK
  <1>7. P!ListAgrees' /\ P!AcksAgree' /\ P!NotifySucceeds'
    BY <1>1, <1>2, <1>3, <1>5, Zenon DEF P!ListAgrees, P!AcksAgree, P!NotifySucceeds
  <1>8. WriteInv'
    BY <1>1, <1>3, <1>4, <1>5, Zenon DEF WriteInv
  <1>. QED BY <1>1, <1>2, <1>3, <1>4, <1>5, <1>6, <1>7, <1>8, Zenon

LEMMA PubPoll ==
  ASSUME PubInv, NEW c \in Reader, P!SubscribePoll(c)
  PROVE  /\ PubInv' /\ P!Notified' = P!Notified /\ status = P!TRANS
         /\ UNCHANGED <<status, msg, pub_notifyfd, pc, ended, owed>> /\ p_ret' = <<c, msg>>
  <1>1. /\ status \notin {P!EMPTY, P!CLOSE} /\ p_ret' = <<c, msg>>
        /\ UNCHANGED <<P!channel, p_count, ended, pc, p_timed, owed>>
    BY PubsubConstants, Zenon DEF P!SubscribePoll
  <1>2. UNCHANGED <<status, msg, pub_notifyfd, sub_num, ack_rem, sublist, p_count, ended, pc,
                    p_timed, owed>>
    BY <1>1, Zenon DEF P!channel
  <1>3. status = P!TRANS
    BY <1>1, Zenon DEF PubInv, CountsAgree, P!CountsAgree, P!TypeOK
  <1>4. P!Notified' = P!Notified
    BY <1>2, Zenon DEF P!Notified
  <1>5. CountsAgree' /\ FreedUnused' /\ WriteInv'
    BY <1>2, <1>4, Zenon
    DEF PubInv, CountsAgree, FreedUnused, P!CountsAgree, P!FreedUnused, WriteInv,
        P!TypeOK, P!ListAgrees, P!AcksAgree, P!NotifySucceeds
  <1>. QED BY <1>1, <1>2, <1>3, <1>4, <1>5, Zenon DEF PubInv

\* What SubscribeEnd does to the list, in both of its cases.
LEMMA PubLeave ==
  ASSUME PubInv, NEW c \in Reader, P!SubscribeEnd(c)
  PROVE  /\ pc[c] = "sub" /\ ended = "no"
         /\ pc' = [pc EXCEPT ![c] = "run"] /\ owed' = [owed EXCEPT ![c] = None]
         /\ UNCHANGED <<status, msg, pub_notifyfd>> /\ p_timed' \subseteq Reader
         /\ sublist' \in Seq(Reader) /\ IsInjective(sublist') /\ sub_num' \in Nat
         /\ P!ListAgrees'
  <1>1. /\ pc[c] = "sub" /\ ended = "no" /\ pc \in [Reader -> {"run", "sub", "pub", "close"}]
        /\ pc' = [pc EXCEPT ![c] = "run"] /\ owed' = [owed EXCEPT ![c] = None]
        /\ UNCHANGED <<status, msg, pub_notifyfd>> /\ p_timed' \subseteq Reader
        /\ sublist \in Seq(Reader) /\ IsInjective(sublist)
        /\ sub_num' = sub_num - 1
    BY Zenon DEF PubInv, CountsAgree, P!CountsAgree, FreedUnused, P!FreedUnused, P!TypeOK,
           P!SubscribeEnd
  <1>2. /\ Range(sublist) = {d \in Reader : pc[d] = "sub"} /\ sub_num = Len(sublist)
        /\ sublist' = Unlink(sublist, c)
    BY PubOps, Zenon DEF PubInv, CountsAgree, P!CountsAgree, P!ListAgrees, P!SubscribeEnd
  <1>3. c \in Range(sublist)
    BY <1>1, <1>2, Zenon
  <1>4. /\ sublist' \in Seq(Reader) /\ IsInjective(sublist')
        /\ Range(sublist') = Range(sublist) \ {c} /\ Len(sublist') = Len(sublist) - 1
        /\ sublist # <<>>
    BY <1>1, <1>2, <1>3, UnlinkOnce
  <1>5. Range(sublist') = {d \in Reader : pc'[d] = "sub"}
    BY <1>1, <1>2, <1>4, Zenon
  <1>6. sub_num' \in Nat /\ sub_num' = Len(sublist')
    BY <1>1, <1>2, <1>4
  <1>7. P!ListAgrees'
    BY <1>5, <1>6, PubOps, Zenon DEF P!ListAgrees
  <1>. QED BY <1>1, <1>4, <1>6, <1>7

\* A subscriber that times out.
LEMMA PubTimeout ==
  ASSUME PubInv, NEW c \in Reader, P!SubscribeEnd(c), p_count[c] = 0
  PROVE  /\ PubInv' /\ owed' = owed /\ owed[c] = None
         /\ UNCHANGED <<p_ret, ended>> /\ status # P!CLOSE
  <1>1. /\ p_count \in [Reader -> Nat] /\ pc \in [Reader -> {"run", "sub", "pub", "close"}]
        /\ p_count' = [p_count EXCEPT ![c] = 0] /\ UNCHANGED <<ack_rem, p_ret, ended>>
    BY Zenon DEF PubInv, CountsAgree, P!CountsAgree, P!TypeOK, P!SubscribeEnd
  <1>2. p_count' = p_count
    BY <1>1, Zenon
  <1>3. c \notin P!Notified
    BY DEF P!Notified
  <1>4. P!Notified' = P!Notified
    BY <1>1, <1>2, <1>3, PubLeave DEF P!Notified
  <1>5. owed[c] = None /\ owed' = owed
    <2>1. owed = [d \in Reader |-> IF status = P!TRANS /\ d \in P!Notified THEN msg ELSE None]
      BY Zenon DEF PubInv
    <2>2. owed[c] = None
      BY <1>3, <2>1, Zenon
    <2>. QED BY <2>1, <2>2, PubLeave, Zenon
  <1>6. status # P!CLOSE
    BY <1>3, PubLeave DEF PubInv, WriteInv
  <1>7. P!TypeOK'
    BY <1>1, <1>2, PubLeave, Zenon DEF PubInv, CountsAgree, P!CountsAgree, P!TypeOK
  <1>8. P!AcksAgree' /\ P!NotifySucceeds'
    BY <1>1, <1>4, PubLeave, Zenon DEF PubInv, CountsAgree, P!CountsAgree, P!AcksAgree, P!NotifySucceeds
  <1>9. WriteInv'
    BY <1>1, <1>2, <1>4, <1>6, PubLeave DEF PubInv, WriteInv
  <1>10. owed' = [d \in Reader |-> IF status' = P!TRANS /\ d \in P!Notified' THEN msg' ELSE None]
    BY <1>4, <1>5, PubLeave, Zenon DEF PubInv
  <1>11. FreedUnused'
    BY <1>1, PubLeave, Zenon DEF FreedUnused, P!FreedUnused
  <1>. QED BY <1>1, <1>5, <1>6, <1>7, <1>8, <1>9, <1>10, <1>11, PubLeave, Zenon
           DEF PubInv, CountsAgree, P!CountsAgree

\* A notified subscriber that runs acknowledges, and the last one notifies who
\* waits for it.
LEMMA PubAck ==
  ASSUME PubInv, NEW c \in Reader, P!SubscribeEnd(c), p_count[c] # 0
  PROVE  /\ PubInv' /\ UNCHANGED ended /\ c \in P!Notified /\ status \in {P!TRANS, P!CLOSE}
         /\ p_ret' \in {p_ret, <<c, msg>>}
         /\ status = P!TRANS => p_ret' = <<c, msg>>
  <1> DEFINE left == (ack_rem - 1) % WORD
             p    == pub_notifyfd
  <1>1. /\ p_count \in [Reader -> Nat] /\ pc \in [Reader -> {"run", "sub", "pub", "close"}]
        /\ status \in {P!EMPTY, P!TRANS, P!CLOSE}
    BY Zenon DEF PubInv, CountsAgree, P!CountsAgree, P!TypeOK
  <1>2. c \in P!Notified /\ P!Notified \in SUBSET Reader
    BY <1>1, PubLeave DEF P!Notified
  <1>3. /\ status \in {P!TRANS, P!CLOSE} /\ p \in Reader /\ p_count[p] = 0 /\ p_count[c] = status
        /\ pc[p] \in {"pub", "close"} /\ p # c /\ pc[p] # "sub"
    BY <1>1, <1>2, PubLeave, Zenon DEF PubInv, WriteInv
  <1>4. ack_rem = Cardinality(P!Notified) /\ ack_rem \in 1..Cardinality(Reader)
        /\ Cardinality(P!Notified \ {c}) = ack_rem - 1
    <2>1. ack_rem = Cardinality(P!Notified)
      BY PubOps, Zenon DEF PubInv, CountsAgree, P!CountsAgree, P!AcksAgree
    <2>. QED BY <1>2, <2>1, ReaderCard
  <1>5. left = ack_rem - 1
    <2>1. ack_rem - 1 \in 0..(WORD - 1) /\ WORD \in Nat \ {0}
      BY <1>4, PubsubConstants, FS_CardinalityType
    <2>. QED BY <2>1, ModSmall, Zenon
  <1>6. /\ ack_rem' = left
        /\ p_count' = IF left = 0 THEN [[p_count EXCEPT ![c] = 0] EXCEPT ![p] = @ + status]
                                  ELSE [p_count EXCEPT ![c] = 0]
        /\ ended' = ended
        /\ p_ret' = IF left = 0 \/ p_count[c] = P!TRANS THEN <<c, msg>> ELSE p_ret
    BY <1>3, Zenon DEF P!SubscribeEnd, P!psc_pubnotify
  <1> HIDE DEF left
  <1>7. p_count' = [d \in Reader |-> IF d = c THEN 0 ELSE
                                     IF d = p /\ left = 0 THEN status ELSE p_count[d]]
    <2>1. CASE left = 0
      <3> DEFINE rest == [p_count EXCEPT ![c] = 0]
      <3>1. /\ rest \in [Reader -> Nat] /\ rest[p] + status = status
            /\ \A d \in Reader : rest[d] = IF d = c THEN 0 ELSE p_count[d]
        BY <1>1, <1>3 DEF P!TRANS, P!CLOSE
      <3>2. p_count' = [rest EXCEPT ![p] = rest[p] + status]
        BY <1>6, <2>1, Zenon
      <3> HIDE DEF rest
      <3>. QED BY <1>3, <2>1, <3>1, <3>2, Zenon
    <2>2. CASE left # 0
      BY <1>1, <1>3, <1>6, <2>2, Zenon
    <2>. QED BY <2>1, <2>2, Zenon
  <1>8. P!Notified' = P!Notified \ {c}
    BY <1>1, <1>3, <1>7, PubLeave, SMTT(60) DEF P!Notified
  <1>9. left = 0 <=> P!Notified' = {}
    BY <1>2, <1>4, <1>5, <1>8, ReaderCard, Zenon
  <1>10. P!TypeOK'
    <2>1. left \in 0..Cardinality(Reader)
      BY <1>4, <1>5, FS_CardinalityType, PubsubConstants
    <2>2. p_count' \in [Reader -> Nat]
      BY <1>1, <1>3, <1>7, Zenon DEF P!TRANS, P!CLOSE
    <2>. QED BY <1>6, <2>1, <2>2, PubOps, PubLeave, Zenon DEF PubInv, CountsAgree, P!CountsAgree, P!TypeOK
  <1>11. P!AcksAgree' /\ P!NotifySucceeds'
    BY <1>4, <1>5, <1>6, <1>8, PubOps, PubLeave, SMTT(60) DEF P!AcksAgree, P!NotifySucceeds
  <1>12. WriteInv'
    <2> USE DEF P!EMPTY, P!TRANS, P!CLOSE
    <2>1. \A d \in Reader : pc'[d] = "run" => p_count'[d] = 0
      BY <1>1, <1>3, <1>7, PubLeave, SMTT(60) DEF PubInv, WriteInv
    <2>2. \A d \in P!Notified' : p_count'[d] = status
      BY <1>1, <1>2, <1>3, <1>7, <1>8, Zenon DEF PubInv, WriteInv, P!Notified
    <2>3. p_count'[p] = IF P!Notified' = {} THEN status ELSE 0
      BY <1>3, <1>7, <1>9, Zenon
    <2>. QED BY <1>1, <1>3, <1>6, <1>8, <2>1, <2>2, <2>3, PubLeave, SMTT(60) DEF PubInv, WriteInv
  <1>13. owed' = [d \in Reader |-> IF status' = P!TRANS /\ d \in P!Notified' THEN msg' ELSE None]
    BY <1>8, PubLeave, Zenon DEF PubInv
  <1>14. FreedUnused'
    BY <1>6, PubLeave, Zenon DEF FreedUnused, P!FreedUnused
  <1>15. PubInv'
    BY <1>10, <1>11, <1>12, <1>13, <1>14, PubLeave, Zenon DEF PubInv, CountsAgree, P!CountsAgree
  <1>. QED BY <1>2, <1>3, <1>6, <1>15, Zenon

LEMMA PubStep == PubInv /\ [P!Next]_(P!vars) => PubInv'
  <1> SUFFICES ASSUME PubInv, [P!Next]_(P!vars) PROVE PubInv'
    BY Zenon
  <1>1. ASSUME NEW c \in Reader, NEW h \in BOOLEAN, P!Subscribe(c, h) PROVE PubInv'
    BY <1>1, PubSubscribe, Zenon
  <1>2. ASSUME NEW c \in Reader, NEW m \in Msg, P!Publish(c, m) PROVE PubInv'
    BY <1>2, PubPublish, Zenon
  <1>3. ASSUME NEW c \in Reader, P!SubscribePoll(c) PROVE PubInv'
    BY <1>3, PubPoll, Zenon
  <1>4. ASSUME NEW c \in Reader, P!SubscribeEnd(c) PROVE PubInv'
    BY <1>4, PubTimeout, PubAck, Zenon
  <1>5. ASSUME NEW c \in Reader, P!PublishEnd(c) PROVE PubInv'
    BY <1>5, PubPublishEnd, Zenon
  <1>6. ASSUME NEW c \in Reader, P!Destroy(c) PROVE PubInv'
    BY <1>6, PubDestroy, Zenon
  <1>7. ASSUME NEW c \in Reader, P!DestroyEnd(c) PROVE PubInv'
    BY <1>7, PubDestroyEnd, Zenon
  <1>8. CASE UNCHANGED P!vars
    <2>1. P!Notified' = P!Notified
      BY <1>8, Zenon DEF P!vars, P!Notified
    <2>2. CountsAgree' /\ FreedUnused' /\ WriteInv'
      BY <1>8, <2>1, Zenon
      DEF PubInv, CountsAgree, FreedUnused, P!CountsAgree, P!FreedUnused, WriteInv, P!vars,
          P!channel, P!TypeOK, P!ListAgrees, P!AcksAgree, P!NotifySucceeds
    <2>. QED BY <1>8, <2>1, <2>2, Zenon DEF PubInv, P!vars, P!channel
  <1>. QED BY <1>1, <1>2, <1>3, <1>4, <1>5, <1>6, <1>7, <1>8, SMTT(60) DEF P!Next

LEMMA PubSafe == P!Spec => []PubInv
  BY PubInit, PubStep, PTL DEF P!Spec

\* However late subscribers and timeouts come in, the counters and the list of
\* dyco_pubsub.c agree with who is suspended and every acknowledgement finds who
\* waits for it.
THEOREM CountsAgreeAlways == P!Spec => []CountsAgree
  <1>1. PubInv => CountsAgree
    BY Zenon DEF PubInv
  <1>. QED BY <1>1, PubSafe, PTL

\* dyco_pubsub_destroy frees the channel when no coroutine is suspended in it.
THEOREM FreedUnusedAlways == P!Spec => []FreedUnused
  <1>1. PubInv => FreedUnused
    BY Zenon DEF PubInv
  <1>. QED BY <1>1, PubSafe, PTL

\* The variables of Broadcast, as Pubsub maps them.
Waiting   == {c \in Reader : pc[c] = "sub"}
Publisher == IF status = P!TRANS THEN pub_notifyfd ELSE None
Closed    == status = P!CLOSE \/ ended = "freed"

LEMMA BroadcastInit == P!Init => P!B!Init
  <1> SUFFICES ASSUME P!Init PROVE P!B!Init
    OBVIOUS
  <1> USE DEF P!Init, P!EMPTY, P!TRANS, P!CLOSE
  <1>1. Waiting = {} /\ Publisher = None /\ msg = None
        /\ p_ret = <<None, None>> /\ owed = [c \in Reader |-> None]
    BY Zenon DEF Waiting, Publisher
  <1>2. Closed = FALSE
    BY DEF Closed
  <1>. QED BY <1>1, <1>2, Zenon DEF P!B!Init, Waiting, Publisher, Closed

LEMMA BroadcastSubscribe ==
  ASSUME PubInv, NEW c \in Reader, NEW h \in BOOLEAN, P!Subscribe(c, h)
  PROVE  P!B!Subscribe(c)
  <1> USE DEF P!Subscribe
  <1>1. pc \in [Reader -> {"run", "sub", "pub", "close"}]
    BY Zenon DEF PubInv, CountsAgree, P!CountsAgree, P!TypeOK
  <1>2. c \notin Waiting /\ Waiting' = Waiting \cup {c}
    BY <1>1, Zenon DEF P!Running, Waiting
  <1>3. Closed = FALSE
    BY Zenon DEF P!Running, Closed
  <1>4. UNCHANGED <<owed, msg, Publisher, p_ret, Closed>>
    BY Zenon DEF Publisher, Closed
  <1>. QED BY <1>2, <1>3, <1>4, Zenon DEF P!B!Subscribe, Waiting, Publisher, Closed

LEMMA BroadcastPublish ==
  ASSUME PubInv, NEW c \in Reader, NEW m \in Msg, P!Publish(c, m)
  PROVE  P!B!Publish(c, m)
  <1> USE DEF P!EMPTY, P!TRANS, P!CLOSE
  <1>1. /\ pc \in [Reader -> {"run", "sub", "pub", "close"}] /\ pc[c] = "run"
        /\ pc' = [pc EXCEPT ![c] = "pub"] /\ status = P!EMPTY /\ status' = P!TRANS
        /\ ended = "no" /\ ended' = ended /\ pub_notifyfd' = c /\ msg' = m /\ p_ret' = p_ret
    BY Zenon DEF PubInv, CountsAgree, P!CountsAgree, P!TypeOK, P!Publish, P!Running
  <1>2. Waiting' = Waiting /\ Publisher = None /\ Publisher' = c
    BY <1>1 DEF Waiting, Publisher
  <1>3. Closed = FALSE /\ Closed' = Closed
    BY <1>1 DEF Closed
  <1>4. Waiting # {}
    BY PubPublish, Zenon DEF Waiting
  <1>5. owed' = [d \in Reader |-> IF d \in Waiting THEN m ELSE None]
    BY PubOps, Zenon DEF P!Publish, PubInv, CountsAgree, P!CountsAgree, P!ListAgrees, Waiting
  <1>. QED BY <1>1, <1>2, <1>3, <1>4, <1>5, Zenon DEF P!B!Publish, Waiting, Publisher, Closed

LEMMA BroadcastSubscribeEnd ==
  ASSUME PubInv, NEW c \in Reader, P!SubscribeEnd(c)
  PROVE  P!B!Receive(c) \/ P!B!GiveUp(c)
  <1>1. /\ pc \in [Reader -> {"run", "sub", "pub", "close"}] /\ msg \in Msg \cup {None}
        /\ owed = [d \in Reader |-> IF status = P!TRANS /\ d \in P!Notified THEN msg ELSE None]
    BY Zenon DEF PubInv, CountsAgree, P!CountsAgree, P!TypeOK
  <1>2. c \in Waiting /\ Waiting' = Waiting \ {c}
    BY <1>1, PubLeave, Zenon DEF Waiting
  <1>3. UNCHANGED <<msg, Publisher>>
    BY PubLeave, Zenon DEF Publisher
  <1>4. UNCHANGED Closed
    BY PubLeave, PubTimeout, PubAck, Zenon DEF Closed
  <1>5. CASE p_count[c] = 0
    <2>1. owed[c] = None /\ owed' = owed /\ p_ret' = p_ret
      BY <1>5, PubTimeout, Zenon
    <2>. QED BY <1>2, <1>3, <1>4, <2>1, Zenon DEF P!B!GiveUp, Waiting, Publisher, Closed
  <1>6. CASE p_count[c] # 0 /\ status = P!TRANS
    <2>1. p_ret' = <<c, msg>> /\ c \in P!Notified
      BY <1>6, PubAck, Zenon
    <2>2. owed[c] = msg /\ msg # None
      BY <1>1, <1>6, <2>1, PubsubConstants, Zenon DEF PubInv, WriteInv
    <2>3. owed' = [owed EXCEPT ![c] = None]
      BY PubLeave, Zenon
    <2>. QED BY <1>2, <1>3, <1>4, <2>1, <2>2, <2>3, Zenon DEF P!B!Receive, Waiting, Publisher, Closed
  <1>7. CASE p_count[c] # 0 /\ status = P!CLOSE
    <2>1. p_ret' \in {p_ret, <<c, msg>>}
      BY <1>7, PubAck, Zenon
    <2>2. owed[c] = None
      BY <1>1, <1>7 DEF P!TRANS, P!CLOSE
    <2>3. owed' = owed
      BY <1>1, <2>2, PubLeave, Zenon
    <2>4. Closed = TRUE
      BY <1>7, Zenon DEF Closed
    <2>5. p_ret' \in {p_ret} \cup (IF Closed THEN {c} \X (Msg \cup {None}) ELSE {})
      BY <1>1, <2>1, <2>4, SMTT(60)
    <2>. QED BY <1>2, <1>3, <1>4, <2>2, <2>3, <2>5, Zenon DEF P!B!GiveUp, Waiting, Publisher, Closed
  <1>. QED BY <1>5, <1>6, <1>7, PubAck, Zenon

LEMMA BroadcastStep == PubInv /\ [P!Next]_(P!vars) => [P!B!Next]_(P!B!vars)
  <1> SUFFICES ASSUME PubInv, [P!Next]_(P!vars) PROVE [P!B!Next]_(P!B!vars)
    BY Zenon
  <1>0. pc \in [Reader -> {"run", "sub", "pub", "close"}]
    BY Zenon DEF PubInv, CountsAgree, P!CountsAgree, P!TypeOK
  <1>1. ASSUME NEW c \in Reader, NEW h \in BOOLEAN, P!Subscribe(c, h)
        PROVE  P!B!Next
    BY <1>1, BroadcastSubscribe, Zenon DEF P!B!Next
  <1>2. ASSUME NEW c \in Reader, NEW m \in Msg, P!Publish(c, m) PROVE P!B!Next
    BY <1>2, BroadcastPublish, Zenon DEF P!B!Next
  <1>3. ASSUME NEW c \in Reader, P!SubscribePoll(c) PROVE P!B!Next
    <2>1. /\ status = P!TRANS /\ p_ret' = <<c, msg>>
          /\ UNCHANGED <<status, msg, pub_notifyfd, pc, ended, owed>>
      BY <1>3, PubPoll, Zenon
    <2>2. Publisher # None
      BY <2>1, PubsubConstants DEF PubInv, WriteInv, Publisher, P!EMPTY, P!TRANS
    <2>3. UNCHANGED <<Waiting, Publisher, Closed>>
      BY <2>1, Zenon DEF Waiting, Publisher, Closed
    <2>4. P!B!Peek(c)
      BY <2>1, <2>2, <2>3, Zenon DEF P!B!Peek, Waiting, Publisher, Closed
    <2>. QED BY <2>4, Zenon DEF P!B!Next
  <1>4. ASSUME NEW c \in Reader, P!SubscribeEnd(c) PROVE P!B!Next
    BY <1>4, BroadcastSubscribeEnd, Zenon DEF P!B!Next
  <1>5. ASSUME NEW c \in Reader, P!PublishEnd(c) PROVE P!B!Next
    <2>1. P!Notified = {} /\ status = P!TRANS /\ pub_notifyfd = c
      BY <1>5, PubPublishEnd, Zenon
    <2>2. /\ pc[c] = "pub" /\ pc' = [pc EXCEPT ![c] = "run"] /\ status' = P!EMPTY
          /\ UNCHANGED <<msg, p_ret, ended, owed>>
      BY <1>5, Zenon DEF P!PublishEnd
    <2>3. \A d \in Reader : owed[d] = None
      BY <2>1, Zenon DEF PubInv
    <2>4. Publisher # None /\ Publisher' = None
      BY <2>1, <2>2, PubsubConstants DEF Publisher, P!EMPTY, P!TRANS
    <2>5. UNCHANGED <<Waiting, Closed>>
      BY <1>0, <2>1, <2>2 DEF Waiting, Closed, P!EMPTY, P!TRANS, P!CLOSE
    <2>6. P!B!PublishEnd
      BY <2>2, <2>3, <2>4, <2>5, Zenon DEF P!B!PublishEnd, Waiting, Publisher, Closed
    <2>. QED BY <2>6, Zenon DEF P!B!Next
  <1>6. ASSUME NEW c \in Reader, P!Destroy(c) PROVE P!B!Next
    <2> USE DEF P!EMPTY, P!TRANS, P!CLOSE
    <2>1. /\ status = P!EMPTY /\ ended = "no" /\ pc[c] = "run"
          /\ UNCHANGED <<msg, p_ret, owed>>
          /\ \/ status' = status /\ ended' = "freed" /\ pc' = pc
             \/ status' = P!CLOSE /\ ended' = ended /\ pc' = [pc EXCEPT ![c] = "close"]
      BY <1>6, Zenon DEF P!Destroy, P!Running
    <2>2. Publisher = None /\ Publisher' = None
      BY <2>1 DEF Publisher
    <2>3. Closed = FALSE
      BY <2>1 DEF Closed
    <2>4. Closed' = TRUE
      BY <2>1, Zenon DEF Closed
    <2>5. Waiting' = Waiting
      BY <1>0, <2>1, Zenon DEF Waiting
    <2>6. P!B!Close
      BY <2>1, <2>2, <2>3, <2>4, <2>5, Zenon DEF P!B!Close, Waiting, Publisher, Closed
    <2>. QED BY <2>6, Zenon DEF P!B!Next
  <1>7. ASSUME NEW c \in Reader, P!DestroyEnd(c) PROVE UNCHANGED P!B!vars
    <2>1. /\ status = P!CLOSE /\ pc[c] = "close" /\ pc' = [pc EXCEPT ![c] = "run"]
          /\ UNCHANGED <<status, msg, pub_notifyfd, p_ret, owed>>
      BY <1>7, PubDestroyEnd, Zenon DEF P!DestroyEnd, P!channel
    <2>2. UNCHANGED <<Waiting, Publisher>>
      BY <1>0, <2>1, Zenon DEF Waiting, Publisher
    <2>3. Closed = TRUE /\ Closed' = TRUE
      BY <2>1, Zenon DEF Closed
    <2>. QED BY <2>1, <2>2, <2>3, Zenon DEF P!B!vars, Waiting, Publisher, Closed
  <1>8. CASE UNCHANGED P!vars
    <2>1. UNCHANGED <<owed, msg, p_ret, Waiting, Publisher, Closed>>
      BY <1>8, Zenon DEF P!vars, P!channel, Waiting, Publisher, Closed
    <2>. QED BY <2>1, Zenon DEF P!B!vars, Waiting, Publisher, Closed
  <1>. QED BY <1>1, <1>2, <1>3, <1>4, <1>5, <1>6, <1>7, <1>8, Zenon DEF P!Next

\* dyco_pubsub.c implements a broadcast: a message reaches exactly who was
\* subscribed when it was published, before publish returns.
THEOREM ImplementsBroadcast == P!Spec => IsBroadcast
  BY BroadcastInit, BroadcastStep, PubSafe, PTL
  DEF P!Spec, IsBroadcast, P!IsBroadcast, P!B!Spec

=============================================================================
