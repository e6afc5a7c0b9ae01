------------------------- MODULE KeyboardLink_proofs -------------------------
(***************************************************************************)
(* Proofs about KeyboardLink, for every set of keys and every bound, and   *)
(* about RoleSignal, which adds what the keys say of the bot's role: as    *)
(* long as the bot only presses the keys of its roles, the link is used as *)
(* in KeyboardLink, and its invariant carries over.                        *)
(***************************************************************************)
EXTENDS RoleSignal, SequenceTheorems, TLAPS

USE LinkAssumption DEF LinkAssumption

(* The history has one vector per change, and it is the client's.          *)
HistoryInv ==
    /\ Len(written) = last_keyboard_change + 1
    /\ written[last_keyboard_change + 1] = keyv

(* What is under way to the server, or has reached it, is what the client  *)
(* had at that change.                                                     *)
KeyboardInv ==
    /\ \A d \in keyboards : /\ d.change <= last_keyboard_change
                            /\ d.keyv = written[d.change + 1]
    /\ last_key_change <= last_keyboard_change
    /\ last_keyv = IF wiped THEN {} ELSE written[last_key_change + 1]

(* What is under way to the client, or has reached it, is a change the     *)
(* server has.                                                             *)
AckInv ==
    /\ \A i \in DOMAIN frames : frames[i] <= last_key_change
    /\ last_keyboard_ack <= last_key_change

IInv == TypeOK /\ HistoryInv /\ KeyboardInv /\ AckInv

(* An earlier version of the history stays what it was when one is added. *)
LEMMA AppendKeeps ==
    ASSUME NEW S, NEW s \in Seq(S), NEW e \in S
    PROVE  /\ Append(s, e) \in Seq(S)
           /\ Len(Append(s, e)) = Len(s) + 1
           /\ Append(s, e)[Len(s) + 1] = e
           /\ \A n \in 1..Len(s) : Append(s, e)[n] = s[n]
  OBVIOUS

LEMMA InitIInv == Init => IInv
  <1> SUFFICES ASSUME Init
               PROVE  IInv
    OBVIOUS
  <1>1. /\ written \in Seq(SUBSET Keys)
        /\ Len(written) = 1
        /\ written[1] = {}
    BY DEF Init
  <1>2. TypeOK
    <2>1. keyv_new \in [Keys -> 0..MaxCount]
      BY DEF Init
    <2>2. frames \in Seq(Nat)
      BY DEF Init
    <2>3. /\ keyv \in SUBSET Keys /\ last_keyv \in SUBSET Keys
          /\ keyboards \in SUBSET Datagrams
          /\ updated \in BOOLEAN /\ inFrame \in BOOLEAN /\ wiped \in BOOLEAN
      BY DEF Init
    <2>4. /\ last_keyboard_change \in 0..MaxChange
          /\ last_keyboard_ack \in Nat
          /\ queued \in 0..MaxOther
          /\ last_key_change \in Nat
      BY DEF Init
    <2>5. QED
      BY <1>1, <2>1, <2>2, <2>3, <2>4 DEF TypeOK
  <1>3. HistoryInv /\ KeyboardInv /\ AckInv
    BY <1>1 DEF Init, HistoryInv, KeyboardInv, AckInv
  <1>4. QED
    BY <1>2, <1>3 DEF IInv

(* Sending puts nothing into the network but the numbered vector.          *)
LEMMA SendKeyboardType ==
    ASSUME TypeOK, NEW c \in Nat, NEW v \in SUBSET Keys, SendKeyboard(c, v)
    PROVE  /\ updated' \in BOOLEAN
           /\ queued' \in 0..MaxOther
           /\ keyboards' \in SUBSET Datagrams
           /\ \A d \in keyboards' : d \in keyboards \/ (d.change = c /\ d.keyv = v)
  <1> DEFINE sent == [change |-> c, keyv |-> v]
  <1>1. sent \in Datagrams /\ sent.change = c /\ sent.keyv = v
    BY DEF Datagrams
  <1>2. CASE queued > Room
    BY <1>2 DEF TypeOK, SendKeyboard
  <1>3. CASE ~(queued > Room)
    <2>1. updated' = TRUE /\ queued' = 0 /\ keyboards' = keyboards \cup {sent}
      BY <1>3 DEF SendKeyboard
    <2>2. keyboards \subseteq Datagrams
      BY DEF TypeOK
    <2> HIDE DEF sent
    <2>3. QED
      BY <1>1, <2>1, <2>2
  <1>4. QED
    BY <1>2, <1>3

(* A new change keeps the invariant, whatever vector it gives.             *)
LEMMA NetKeyChangeStep ==
    ASSUME IInv, NEW v \in SUBSET Keys, NetKeyChange(v),
           keyv_new' \in [Keys -> 0..MaxCount],
           UNCHANGED <<last_keyboard_ack, inFrame, frames, serverVars>>
    PROVE  IInv'
  <1>1. /\ last_keyboard_change' \in 0..MaxChange
        /\ last_keyboard_change \in Nat
        /\ last_keyboard_change' = last_keyboard_change + 1
    BY DEF NetKeyChange, IInv, TypeOK
  <1>2. /\ written' \in Seq(SUBSET Keys)
        /\ Len(written') = Len(written) + 1
        /\ written'[Len(written) + 1] = v
        /\ \A n \in 1..Len(written) : written'[n] = written[n]
    <2>1. written' = Append(written, v)
      BY DEF NetKeyChange
    <2>2. written \in Seq(SUBSET Keys)
      BY DEF IInv, TypeOK
    <2>3. QED
      BY <2>1, <2>2, AppendKeeps
  <1>3. /\ updated' \in BOOLEAN
        /\ queued' \in 0..MaxOther
        /\ keyboards' \in SUBSET Datagrams
        /\ \A d \in keyboards' :
             d \in keyboards \/ (d.change = last_keyboard_change + 1 /\ d.keyv = v)
    BY <1>1, SendKeyboardType DEF NetKeyChange, IInv
  <1>4. keyv' = v
    BY DEF NetKeyChange
  <1>5. TypeOK'
    BY <1>1, <1>2, <1>3, <1>4 DEF IInv, TypeOK, serverVars
  <1>6. HistoryInv'
    BY <1>1, <1>2, <1>4 DEF IInv, HistoryInv
  <1>7. KeyboardInv'
    <2>1. \A d \in keyboards' : /\ d.change <= last_keyboard_change'
                                /\ d.keyv = written'[d.change + 1]
      <3> SUFFICES ASSUME NEW d \in keyboards'
                   PROVE  /\ d.change <= last_keyboard_change'
                          /\ d.keyv = written'[d.change + 1]
        OBVIOUS
      <3>1. d.change \in Nat /\ Len(written) = last_keyboard_change + 1
        BY <1>3 DEF IInv, HistoryInv, Datagrams
      <3>2. CASE d \in keyboards
        <4>1. d.change <= last_keyboard_change /\ d.keyv = written[d.change + 1]
          BY <3>2 DEF IInv, KeyboardInv
        <4>2. d.change + 1 \in 1..Len(written)
          BY <1>1, <3>1, <4>1
        <4>3. QED
          BY <1>1, <1>2, <3>1, <4>1, <4>2
      <3>3. CASE d.change = last_keyboard_change + 1 /\ d.keyv = v
        BY <1>1, <1>2, <3>1, <3>3
      <3>4. QED
        BY <1>3, <3>2, <3>3
    <2>2. /\ last_key_change' <= last_keyboard_change'
          /\ last_keyv' = IF wiped' THEN {} ELSE written'[last_key_change' + 1]
      BY <1>1, <1>2 DEF IInv, TypeOK, HistoryInv, KeyboardInv, serverVars
    <2>3. QED
      BY <2>1, <2>2 DEF KeyboardInv
  <1>8. AckInv'
    BY DEF IInv, AckInv, serverVars
  <1>9. QED
    BY <1>5, <1>6, <1>7, <1>8 DEF IInv

(* Sending the current vector again keeps the invariant.                   *)
LEMMA ResendStep ==
    ASSUME IInv,
           updated' \in BOOLEAN,
           queued' \in 0..MaxOther,
           keyboards' \in SUBSET Datagrams,
           \A d \in keyboards' : \/ d \in keyboards
                                 \/ /\ d.change = last_keyboard_change
                                    /\ d.keyv = keyv,
           inFrame' \in BOOLEAN,
           UNCHANGED <<keyv_new, keyv, last_keyboard_change,
                       last_keyboard_ack, frames, serverVars, written>>
    PROVE  IInv'
  BY DEF IInv, TypeOK, HistoryInv, KeyboardInv, AckInv, serverVars, Datagrams

LEMMA NetFlushEffect ==
    ASSUME IInv, NetFlush
    PROVE  /\ updated' \in BOOLEAN
           /\ queued' \in 0..MaxOther
           /\ keyboards' \in SUBSET Datagrams
           /\ \A d \in keyboards' : \/ d \in keyboards
                                    \/ /\ d.change = last_keyboard_change
                                       /\ d.keyv = keyv
  <1>1. /\ last_keyboard_change \in Nat
        /\ keyv \in SUBSET Keys
        /\ TypeOK
    BY DEF IInv, TypeOK
  <1>2. CASE SendKeyboard(last_keyboard_change, keyv)
    BY <1>1, <1>2, SendKeyboardType
  <1>3. CASE queued' = 0 /\ UNCHANGED <<updated, keyboards>>
    BY <1>1, <1>3 DEF TypeOK
  <1>4. QED
    BY <1>2, <1>3 DEF NetFlush

(* A frame taken from the network leaves acknowledgements that were there. *)
LEMMA SuffixElements ==
    ASSUME NEW s \in Seq(Nat), NEW k \in 1..Len(s)
    PROVE  /\ SubSeq(s, k + 1, Len(s)) \in Seq(Nat)
           /\ \A n \in DOMAIN SubSeq(s, k + 1, Len(s)) :
                \E m \in DOMAIN s : SubSeq(s, k + 1, Len(s))[n] = s[m]
  <1> DEFINE t == SubSeq(s, k + 1, Len(s))
  <1>1. /\ t \in Seq(Nat)
        /\ Len(t) = Len(s) - k
        /\ \A n \in 1..Len(t) : t[n] = s[k + n]
    <2>1. k + 1 \in Int /\ Len(s) \in Int /\ k \in Int /\ k <= Len(s)
      OBVIOUS
    <2>2. \A j \in (k + 1)..Len(s) : s[j] \in Nat
      BY <2>1
    <2>3. /\ t \in Seq(Nat)
          /\ Len(t) = IF k + 1 <= Len(s) THEN Len(s) - (k + 1) + 1 ELSE 0
          /\ \A j \in 1..(Len(s) - (k + 1) + 1) : t[j] = s[(k + 1) + j - 1]
      BY <2>1, <2>2, SubSeqProperties
    <2> HIDE DEF t
    <2>4. Len(t) = Len(s) - k
      BY <2>1, <2>3
    <2>5. ASSUME NEW n \in 1..Len(t)
          PROVE  t[n] = s[k + n]
      <3>1. n \in 1..(Len(s) - (k + 1) + 1) /\ (k + 1) + n - 1 = k + n
        BY <2>1, <2>4
      <3>2. QED
        BY <2>3, <3>1
    <2>6. QED
      BY <2>3, <2>4, <2>5
  <1> HIDE DEF t
  <1>2. ASSUME NEW n \in DOMAIN t
        PROVE  \E m \in DOMAIN s : t[n] = s[m]
    <2>1. DOMAIN t = 1..Len(t) /\ DOMAIN s = 1..Len(s) /\ Len(s) \in Nat
      BY <1>1
    <2>2. n \in 1..Len(t)
      BY <2>1
    <2>3. k + n \in 1..Len(s)
      <3>1. n \in 1..(Len(s) - k)
        BY <1>1, <2>2
      <3>2. QED
        BY <2>1, <3>1
    <2>4. QED
      BY <1>1, <2>1, <2>2, <2>3
  <1>3. QED
    BY <1>1, <1>2 DEF t

LEMMA TailElements ==
    ASSUME NEW s \in Seq(Nat), s # <<>>
    PROVE  /\ Tail(s) \in Seq(Nat)
           /\ \A n \in DOMAIN Tail(s) : \E m \in DOMAIN s : Tail(s)[n] = s[m]
  <1> DEFINE t == Tail(s)
  <1>1. /\ t \in Seq(Nat)
        /\ Len(t) = Len(s) - 1
        /\ \A n \in 1..Len(t) : t[n] = s[n + 1]
    BY HeadTailProperties
  <1> HIDE DEF t
  <1>2. ASSUME NEW n \in DOMAIN t
        PROVE  \E m \in DOMAIN s : t[n] = s[m]
    <2>1. DOMAIN t = 1..Len(t) /\ DOMAIN s = 1..Len(s) /\ Len(s) \in Nat
      BY <1>1
    <2>2. n \in 1..Len(t)
      BY <2>1
    <2>3. n + 1 \in 1..Len(s)
      BY <1>1, <2>1, <2>2
    <2>4. QED
      BY <1>1, <2>1, <2>2, <2>3
  <1>3. QED
    BY <1>1, <1>2 DEF t

LEMMA NextIInv == IInv /\ [Next]_vars => IInv'
  <1> SUFFICES ASSUME IInv, [Next]_vars
               PROVE  IInv'
    OBVIOUS
  <1>1. ASSUME NEW k \in Keys, Press(k)
        PROVE  IInv'
    <2>1. keyv_new' \in [Keys -> 0..MaxCount]
      BY <1>1 DEF Press, IInv, TypeOK
    <2>2. (IF keyv_new[k] = 0 THEN keyv \cup {k} ELSE keyv) \in SUBSET Keys
      BY DEF IInv, TypeOK
    <2>3. QED
      BY <1>1, <2>1, <2>2, NetKeyChangeStep DEF Press
  <1>2. ASSUME NEW k \in Keys, Release(k)
        PROVE  IInv'
    <2>1. keyv_new' \in [Keys -> 0..MaxCount]
      BY <1>2 DEF Release, IInv, TypeOK
    <2>2. (IF keyv_new[k] = 1 THEN keyv \ {k} ELSE keyv) \in SUBSET Keys
      BY DEF IInv, TypeOK
    <2>3. QED
      BY <1>2, <2>1, <2>2, NetKeyChangeStep DEF Release
  <1>3. CASE QueueOther
    BY <1>3 DEF QueueOther, IInv, TypeOK, HistoryInv, KeyboardInv, AckInv,
                serverVars
  <1>4. ASSUME NEW k \in DOMAIN frames, ReceiveFrame(k)
        PROVE  IInv'
    <2>1. k \in 1..Len(frames) /\ frames \in Seq(Nat)
      BY DEF IInv, TypeOK
    <2>2. /\ frames' \in Seq(Nat)
          /\ \A n \in DOMAIN frames' : \E m \in DOMAIN frames : frames'[n] = frames[m]
      BY <1>4, <2>1, SuffixElements DEF ReceiveFrame
    <2>3. /\ last_keyboard_ack' \in Nat
          /\ last_keyboard_ack' <= last_key_change
      BY <1>4, <2>1 DEF ReceiveFrame, IInv, TypeOK, AckInv
    <2>4. AckInv'
      BY <1>4, <2>2, <2>3 DEF ReceiveFrame, IInv, AckInv, serverVars
    <2>5. TypeOK'
      BY <1>4, <2>2, <2>3 DEF ReceiveFrame, IInv, TypeOK, serverVars
    <2>6. HistoryInv' /\ KeyboardInv'
      BY <1>4 DEF ReceiveFrame, IInv, HistoryInv, KeyboardInv, serverVars
    <2>7. QED
      BY <2>4, <2>5, <2>6 DEF IInv
  <1>5. CASE FinishFrame
    <2>1. /\ last_keyboard_change \in Nat
          /\ keyv \in SUBSET Keys
          /\ TypeOK
      BY DEF IInv, TypeOK
    <2>2. CASE SendKeyboard(last_keyboard_change, keyv)
      BY <1>5, <2>1, <2>2, SendKeyboardType, ResendStep DEF FinishFrame
    <2>3. CASE NetFlush
      BY <1>5, <2>3, NetFlushEffect, ResendStep DEF FinishFrame
    <2>4. QED
      BY <1>5, <2>2, <2>3 DEF FinishFrame
  <1>6. CASE IdleFlush
    <2>1. inFrame' \in BOOLEAN
      BY <1>6 DEF IdleFlush, IInv, TypeOK
    <2>2. QED
      BY <1>6, <2>1, NetFlushEffect, ResendStep DEF IdleFlush
  <1>7. ASSUME NEW d \in keyboards, ReceiveKeyboard(d)
        PROVE  IInv'
    <2>1. keyboards' \subseteq keyboards
      BY <1>7 DEF ReceiveKeyboard
    <2>2. /\ last_key_change' \in Nat
          /\ last_key_change <= last_key_change'
          /\ last_key_change' <= last_keyboard_change
          /\ last_keyv' \in SUBSET Keys
          /\ wiped' \in BOOLEAN
          /\ last_keyv' = IF wiped' THEN {} ELSE written[last_key_change' + 1]
      <3>1. /\ last_key_change \in Nat /\ last_keyv \in SUBSET Keys
            /\ wiped \in BOOLEAN
            /\ last_key_change <= last_keyboard_change
            /\ last_keyv = IF wiped THEN {} ELSE written[last_key_change + 1]
            /\ d.change \in Nat /\ d.keyv \in SUBSET Keys
            /\ d.change <= last_keyboard_change
            /\ d.keyv = written[d.change + 1]
            /\ last_keyboard_change \in Nat
        BY DEF IInv, TypeOK, KeyboardInv, Datagrams
      <3>2. CASE d.change <= last_key_change
        <4>1. UNCHANGED <<last_key_change, last_keyv, wiped, written>>
          BY <1>7, <3>2 DEF ReceiveKeyboard, serverVars
        <4>2. QED
          BY <3>1, <4>1
      <3>3. CASE ~(d.change <= last_key_change)
        <4>1. /\ last_key_change' = d.change /\ last_keyv' = d.keyv
              /\ wiped' = FALSE
          BY <1>7, <3>3 DEF ReceiveKeyboard
        <4>2. /\ last_key_change' \in Nat
              /\ last_key_change <= last_key_change'
              /\ last_key_change' <= last_keyboard_change
          BY <3>1, <3>3, <4>1
        <4>3. last_keyv' = written[last_key_change' + 1]
          BY <3>1, <4>1
        <4>4. last_keyv' = IF wiped' THEN {} ELSE written[last_key_change' + 1]
          BY <4>1, <4>3, Zenon
        <4>5. last_keyv' \in SUBSET Keys /\ wiped' \in BOOLEAN
          BY <3>1, <4>1
        <4>6. QED
          BY <4>2, <4>4, <4>5
      <3>4. QED
        BY <3>2, <3>3
    <2>3. TypeOK'
      BY <1>7, <2>1, <2>2 DEF ReceiveKeyboard, IInv, TypeOK, clientVars
    <2>4. HistoryInv' /\ KeyboardInv'
      BY <1>7, <2>1, <2>2
      DEF ReceiveKeyboard, IInv, HistoryInv, KeyboardInv, clientVars
    <2>5. AckInv'
      BY <1>7, <2>2 DEF ReceiveKeyboard, IInv, TypeOK, AckInv, clientVars
    <2>6. QED
      BY <2>3, <2>4, <2>5 DEF IInv
  <1>8. ASSUME NEW d \in keyboards, LoseKeyboard(d)
        PROVE  IInv'
    BY <1>8 DEF LoseKeyboard, IInv, TypeOK, HistoryInv, KeyboardInv, AckInv,
                clientVars, serverVars
  <1>9. CASE SendFrame
    <2> DEFINE fs == Append(frames, last_key_change)
    <2>1. /\ frames \in Seq(Nat)
          /\ last_key_change \in Nat
      BY DEF IInv, TypeOK
    <2>2. /\ fs \in Seq(Nat)
          /\ fs # <<>>
          /\ \A n \in DOMAIN fs : fs[n] <= last_key_change
      BY <2>1 DEF IInv, AckInv
    <2>3. frames' = fs \/ frames' = Tail(fs)
      BY <1>9 DEF SendFrame
    <2>4. /\ frames' \in Seq(Nat)
          /\ \A n \in DOMAIN frames' : frames'[n] <= last_key_change
      <3> HIDE DEF fs
      <3>1. CASE frames' = fs
        BY <2>2, <3>1
      <3>2. CASE frames' = Tail(fs)
        <4>1. /\ Tail(fs) \in Seq(Nat)
              /\ \A n \in DOMAIN Tail(fs) : \E m \in DOMAIN fs : Tail(fs)[n] = fs[m]
          BY <2>2, TailElements
        <4>2. QED
          BY <2>2, <3>2, <4>1
      <3>3. QED
        BY <2>3, <3>1, <3>2
    <2>5. TypeOK'
      BY <1>9, <2>4 DEF SendFrame, IInv, TypeOK, clientVars, serverVars
    <2>6. HistoryInv' /\ KeyboardInv' /\ AckInv'
      BY <1>9, <2>4
      DEF SendFrame, IInv, HistoryInv, KeyboardInv, AckInv, clientVars,
          serverVars
    <2>7. QED
      BY <2>5, <2>6 DEF IInv
  <1>10. CASE GoHome
    BY <1>10 DEF GoHome, IInv, TypeOK, HistoryInv, KeyboardInv, AckInv,
                 clientVars
  <1>11. CASE UNCHANGED vars
    BY <1>11 DEF vars, clientVars, serverVars, IInv, TypeOK, HistoryInv,
                 KeyboardInv, AckInv
  <1>12. QED
    BY <1>1, <1>2, <1>3, <1>4, <1>5, <1>6, <1>7, <1>8, <1>9, <1>10, <1>11
    DEF Next, Client, Server

LEMMA Invariance == Spec => []IInv
  BY InitIInv, NextIInv, PTL DEF Spec

-----------------------------------------------------------------------------
(* Type correctness, for every set of keys and every bound.                *)
THEOREM TypeCorrect == Spec => []TypeOK
  <1>1. IInv => TypeOK
    BY DEF IInv
  <1>2. QED
    BY <1>1, Invariance, PTL

(* The client holding the latest acknowledgement, the server has its       *)
(* vector (but for Go_home): the end of the resending is justified.        *)
THEOREM Synced == Spec => []AckedMeansSynced
  <1>1. IInv => AckedMeansSynced
    BY DEF IInv, TypeOK, HistoryInv, KeyboardInv, AckInv, AckedMeansSynced,
           Unacked
  <1>2. QED
    BY <1>1, Invariance, PTL

(* The "Premature keyboard ack by server" of Receive_start is impossible.  *)
THEOREM AcksHonest == Spec => []NoPrematureAck
  <1>1. IInv => NoPrematureAck
    <2> SUFFICES ASSUME IInv
                 PROVE  NoPrematureAck
      OBVIOUS
    <2>1. /\ last_key_change \in Nat /\ last_keyboard_change \in Nat
          /\ frames \in Seq(Nat)
          /\ last_key_change <= last_keyboard_change
      BY DEF IInv, TypeOK, KeyboardInv
    <2>2. \A n \in DOMAIN frames : frames[n] <= last_keyboard_change
      BY <2>1 DEF IInv, AckInv
    <2>3. QED
      BY <2>2 DEF IInv, AckInv, NoPrematureAck
  <1>2. QED
    BY <1>1, Invariance, PTL

(* The server holds a vector the client had, at the change it stands for.  *)
THEOREM HoldsWritten == Spec => []ServerHoldsWritten
  <1>1. IInv => ServerHoldsWritten
    BY DEF IInv, KeyboardInv, ServerHoldsWritten
  <1>2. QED
    BY <1>1, Invariance, PTL

(* The protocol over a lossy, duplicating and reordering network           *)
(* implements the register that is only ever copied forward.               *)
THEOREM Refinement == Spec => RefinesRegister
  <1>1. Init => Register!RegInit
    BY DEF Init, Register!RegInit
  <1>2. IInv /\ [Next]_vars => [Register!RegNext]_(Register!regVars)
    <2> SUFFICES ASSUME IInv, [Next]_vars
                 PROVE  Register!RegNext \/ UNCHANGED Register!regVars
      OBVIOUS
    <2> USE DEF Register!RegNext, Register!regVars, Register!Write,
                Register!Catchup
    <2>1. ASSUME NEW k \in Keys, Press(k) \/ Release(k)
          PROVE  Register!RegNext
      <3>1. PICK v \in SUBSET Keys : NetKeyChange(v)
        BY <2>1 DEF Press, Release, IInv, TypeOK
      <3>2. UNCHANGED last_key_change
        BY <2>1 DEF Press, Release, serverVars
      <3>3. QED
        BY <3>1, <3>2 DEF NetKeyChange
    <2>2. ASSUME NEW d \in keyboards, ReceiveKeyboard(d)
          PROVE  Register!RegNext \/ UNCHANGED Register!regVars
      <3>1. /\ d.change \in Nat /\ last_key_change \in Nat
            /\ d.change <= last_keyboard_change
            /\ last_keyboard_change \in Nat
            /\ Len(written) = last_keyboard_change + 1
        BY DEF IInv, TypeOK, Datagrams, KeyboardInv, HistoryInv
      <3>2. UNCHANGED written
        BY <2>2 DEF ReceiveKeyboard
      <3>3. CASE d.change <= last_key_change
        BY <2>2, <3>2, <3>3 DEF ReceiveKeyboard, serverVars
      <3>4. CASE ~(d.change <= last_key_change)
        BY <2>2, <3>1, <3>2, <3>4 DEF ReceiveKeyboard
      <3>5. QED
        BY <3>3, <3>4
    <2>3. CASE \/ QueueOther \/ (\E k \in DOMAIN frames : ReceiveFrame(k))
               \/ FinishFrame \/ IdleFlush \/ SendFrame \/ GoHome
               \/ (\E d \in keyboards : LoseKeyboard(d)) \/ UNCHANGED vars
      BY <2>3 DEF QueueOther, ReceiveFrame, FinishFrame, IdleFlush, SendFrame,
                  LoseKeyboard, GoHome, vars, serverVars
    <2>4. QED
      BY <2>1, <2>2, <2>3 DEF Next, Client, Server
  <1>3. QED
    BY <1>1, <1>2, Invariance, PTL DEF Spec, RefinesRegister, Register!RegSpec
-----------------------------------------------------------------------------
(* The roles.                                                              *)

RoleTypes == RoleTypeOK /\ IInv

Elements(s) == {s[n] : n \in DOMAIN s}

Said == Elements(announced)

(* The keys that are down are those of the roles announced, and no key     *)
(* ever written down stands for another.                                   *)
SaidInv ==
    /\ keyv = Said \intersect BoundRoles
    /\ \A k \in Keys : k \in keyv <=> keyv_new[k] > 0
    /\ \A n \in DOMAIN written : written[n] \subseteq Said \intersect BoundRoles

(* What the server has made of its vector.                                 *)
ShownInv ==
    /\ aiState # 0 => aiState \in Said
    /\ \A r \in BoundRoles :
         Said \intersect BoundRoles = {r} /\ r \in last_keyv
           => aiState = r \/ r \in dropped

RoleIInv == RoleTypes /\ SaidInv /\ ShownInv

(* Pressing the keys of the bot's roles uses the link as KeyboardLink does. *)
LEMMA RoleStays == role \in Roles /\ [RoleNext]_allVars => (role \in Roles)'
  BY DEF RoleNext, Announce, SwitchRole, LinkStep, HandleKeyboard, Die, Recover,
         allVars, roleVars

LEMMA AnnouncingIsLinkStep ==
    ASSUME NEW r \in Roles, SendSelfState(r)
    PROVE  [Next]_vars
  <1>1. CASE r \in BoundRoles
    <2>1. r \in Keys
      BY <1>1, RoleAssumption
    <2>2. QED
      BY <1>1, <2>1 DEF SendSelfState, Next, Client
  <1>2. CASE r \notin BoundRoles
    BY <1>2 DEF SendSelfState
  <1>3. QED
    BY <1>1, <1>2

LEMMA LinkUsed == role \in Roles /\ [RoleNext]_allVars => [Next]_vars
  <1> SUFFICES ASSUME role \in Roles, [RoleNext]_allVars
               PROVE  [Next]_vars
    OBVIOUS
  <1>1. CASE Announce
    BY <1>1, AnnouncingIsLinkStep DEF Announce
  <1>2. ASSUME NEW r \in Roles, SwitchRole(r)
        PROVE  [Next]_vars
    BY <1>2, AnnouncingIsLinkStep DEF SwitchRole
  <1>3. CASE LinkStep
    BY <1>3 DEF LinkStep, Next, Client, Server
  <1>4. ASSUME NEW d \in keyboards, HandleKeyboard(d)
        PROVE  [Next]_vars
    BY <1>4 DEF HandleKeyboard, Next, Server
  <1>5. CASE Die
    BY <1>5 DEF Die
  <1>6. CASE Recover
    BY <1>6 DEF Recover, Next, Server
  <1>7. CASE UNCHANGED allVars
    BY <1>7 DEF allVars
  <1>8. QED
    BY <1>1, <1>2, <1>3, <1>4, <1>5, <1>6, <1>7 DEF RoleNext

(* One of the keys that went down is the last of them in keys.h.           *)
LEMMA LastKeyDown ==
    ASSUME NEW down \in SUBSET (1..8), down # {}
    PROVE  \E n \in down : \A m \in down : KeyOrder(m) <= KeyOrder(n)
  <1>1. \A n \in 1..6 : KeyOrder(n) = n + 1
    BY DEF KeyOrder
  <1>2. KeyOrder(7) = 0 /\ KeyOrder(8) = 1
    BY DEF KeyOrder
  <1>3. \A m \in down : m \in 1..6 \/ m = 7 \/ m = 8
    OBVIOUS
  <1> HIDE DEF KeyOrder
  <1>4. CASE \E n \in down : n \in 1..6
    <2>1. PICK n \in down \intersect (1..6) : \A m \in down \intersect (1..6) : m <= n
      <3>1. CASE 6 \in down
        BY <3>1
      <3>2. CASE 6 \notin down /\ 5 \in down
        BY <3>2
      <3>3. CASE 6 \notin down /\ 5 \notin down /\ 4 \in down
        BY <3>3
      <3>4. CASE 6 \notin down /\ 5 \notin down /\ 4 \notin down /\ 3 \in down
        BY <3>4
      <3>5. CASE 6 \notin down /\ 5 \notin down /\ 4 \notin down /\ 3 \notin down /\ 2 \in down
        BY <3>5
      <3>6. CASE \A n \in down \intersect (1..6) : n = 1
        BY <1>4, <3>6
      <3>7. QED
        BY <3>1, <3>2, <3>3, <3>4, <3>5, <3>6
    <2>2. QED
      BY <1>1, <1>2, <1>3, <2>1
  <1>5. CASE 8 \in down /\ ~ \E n \in down : n \in 1..6
    BY <1>2, <1>3, <1>5
  <1>6. CASE 8 \notin down /\ ~ \E n \in down : n \in 1..6
    <2>1. \A m \in down : m = 7
      BY <1>3, <1>6
    <2>2. 7 \in down
      BY <2>1
    <2>3. KeyOrder(7) <= KeyOrder(7)
      BY <1>2
    <2>4. QED
      BY <2>1, <2>2, <2>3
  <1>7. QED
    BY <1>4, <1>5, <1>6

LEMMA ShownIsDown ==
    ASSUME NEW down \in SUBSET Keys
    PROVE  /\ ShownAfter(down) = aiState \/ (alive /\ ShownAfter(down) \in down)
           /\ alive /\ down # {} => ShownAfter(down) \in down
  <1>1. CASE alive /\ down # {}
    <2>1. down \in SUBSET (1..8)
      BY RoleAssumption
    <2>2. \E n \in down : \A m \in down : KeyOrder(m) <= KeyOrder(n)
      BY <1>1, <2>1, LastKeyDown
    <2>3. ShownAfter(down) = CHOOSE n \in down : \A m \in down : KeyOrder(m) <= KeyOrder(n)
      BY <1>1 DEF ShownAfter
    <2>4. ShownAfter(down) \in down
      BY <2>2, <2>3, Zenon
    <2>5. QED
      BY <1>1, <2>4
  <1>2. CASE ~(alive /\ down # {})
    BY <1>2 DEF ShownAfter
  <1>3. QED
    BY <1>1, <1>2

LEMMA InitRoleIInv == RoleInit => RoleIInv
  <1> SUFFICES ASSUME RoleInit
               PROVE  RoleIInv
    OBVIOUS
  <1>1. IInv
    BY InitIInv DEF RoleInit
  <1>2. /\ announced = <<>> /\ keyv = {} /\ last_keyv = {} /\ aiState = 0
        /\ keyv_new = [k \in Keys |-> 0] /\ written = << {} >>
        /\ role \in Roles /\ alive = TRUE /\ dropped = {}
    BY DEF RoleInit, Init
  <1>3. Said = {}
    BY <1>2 DEF Said, Elements
  <1>4. RoleTypeOK
    BY <1>1, <1>2 DEF RoleTypeOK, IInv
  <1>5. SaidInv
    BY <1>2, <1>3 DEF SaidInv
  <1>6. ShownInv
    BY <1>2 DEF ShownInv
  <1>7. QED
    BY <1>1, <1>4, <1>5, <1>6 DEF RoleIInv, RoleTypes

(* What the server holds are keys of roles announced.                      *)
LEMMA HeldIsSaid ==
    ASSUME RoleTypes, SaidInv
    PROVE  /\ last_keyv \subseteq Said \intersect BoundRoles
           /\ \A d \in keyboards : d.keyv \subseteq Said \intersect BoundRoles
  <1>1. /\ last_key_change \in Nat /\ last_keyboard_change \in Nat
        /\ last_key_change <= last_keyboard_change
        /\ Len(written) = last_keyboard_change + 1 /\ written \in Seq(SUBSET Keys)
    BY DEF RoleTypes, IInv, TypeOK, KeyboardInv, HistoryInv
  <1>2. \A n \in 1..Len(written) : written[n] \subseteq Said \intersect BoundRoles
    BY <1>1 DEF SaidInv
  <1>3. last_keyv = {} \/ last_keyv = written[last_key_change + 1]
    BY DEF RoleTypes, IInv, KeyboardInv
  <1>4. last_keyv \subseteq Said \intersect BoundRoles
    <2>1. last_key_change + 1 \in 1..Len(written)
      BY <1>1
    <2>2. QED
      BY <1>2, <1>3, <2>1
  <1>5. ASSUME NEW d \in keyboards
        PROVE  d.keyv \subseteq Said \intersect BoundRoles
    <2>1. d.change \in Nat /\ d.change <= last_keyboard_change
          /\ d.keyv = written[d.change + 1]
      BY DEF RoleTypes, IInv, TypeOK, Datagrams, KeyboardInv
    <2>2. d.change + 1 \in 1..Len(written)
      BY <1>1, <2>1
    <2>3. QED
      BY <1>2, <2>1, <2>2
  <1>6. QED
    BY <1>4, <1>5

LEMMA AppendSays ==
    ASSUME NEW S, NEW s \in Seq(S), NEW e \in S
    PROVE  Elements(Append(s, e)) = Elements(s) \union {e}
  <1> DEFINE t == Append(s, e)
  <1>1. /\ t \in Seq(S) /\ Len(t) = Len(s) + 1
        /\ t[Len(s) + 1] = e
        /\ \A n \in 1..Len(s) : t[n] = s[n]
        /\ Len(s) \in Nat
    BY AppendKeeps
  <1> HIDE DEF t
  <1>2. DOMAIN s = 1..Len(s) /\ DOMAIN t = 1..(Len(s) + 1)
    BY <1>1
  <1>3. \A n \in 1..(Len(s) + 1) : n \in 1..Len(s) \/ n = Len(s) + 1
    BY <1>1
  <1>4. \A n \in 1..Len(s) : n \in 1..(Len(s) + 1)
    BY <1>1
  <1>5. Len(s) + 1 \in 1..(Len(s) + 1)
    BY <1>1
  <1>6. Elements(t) = Elements(s) \union {e}
    BY <1>1, <1>2, <1>3, <1>4, <1>5 DEF Elements
  <1>7. QED
    BY <1>6 DEF t

(* A role is said, and its key, if it has one, is down from then on.       *)
LEMMA SendSelfStateKeeps ==
    ASSUME RoleIInv, NEW r \in Roles, SendSelfState(r)
    PROVE  /\ announced' \in Seq(Roles)
           /\ Said' = Said \union {r}
           /\ SaidInv'
           /\ last_keyv' = last_keyv
  <1>1. announced \in Seq(Roles) /\ keyv_new \in [Keys -> 0..MaxCount]
        /\ written \in Seq(SUBSET Keys) /\ keyv \in SUBSET Keys
    BY DEF RoleIInv, RoleTypes, RoleTypeOK, TypeOK
  <1>2. announced' \in Seq(Roles) /\ Said' = Said \union {r}
    <2>1. CASE announced' = Append(announced, r)
      <3>1. announced' \in Seq(Roles)
        BY <1>1, <2>1, AppendKeeps
      <3>2. Elements(announced') = Elements(announced) \union {r}
        BY <1>1, <2>1, AppendSays
      <3>3. QED
        BY <3>1, <3>2 DEF Said
    <2>2. CASE /\ announced # <<>> /\ announced[Len(announced)] = r
               /\ announced' = announced
      <3>1. Len(announced) \in DOMAIN announced
        BY <1>1, <2>2
      <3>2. QED
        BY <1>1, <2>2, <3>1 DEF Said, Elements
    <2>3. QED
      BY <2>1, <2>2 DEF SendSelfState
  <1>3. CASE r \in BoundRoles
    <2>1. r \in Keys
      BY <1>3, RoleAssumption
    <2>2. /\ keyv_new' = [keyv_new EXCEPT ![r] = IF @ < MaxCount THEN @ + 1 ELSE @]
          /\ last_keyv' = last_keyv
          /\ NetKeyChange(IF keyv_new[r] = 0 THEN keyv \cup {r} ELSE keyv)
      BY <1>3 DEF SendSelfState, Press, serverVars
    <2>3. keyv' = keyv \union {r} /\ keyv' \in SUBSET Keys
          /\ written' = Append(written, keyv')
      <3>1. keyv_new[r] # 0 => r \in keyv
        BY <1>1, <2>1 DEF RoleIInv, SaidInv
      <3>2. QED
        BY <1>1, <2>1, <2>2, <3>1 DEF NetKeyChange
    <2>4. keyv' = Said' \intersect BoundRoles
      BY <1>2, <1>3, <2>3 DEF RoleIInv, SaidInv
    <2>5. \A k \in Keys : k \in keyv' <=> keyv_new'[k] > 0
      <3>1. keyv_new'[r] > 0
        BY <1>1, <2>1, <2>2
      <3>2. \A k \in Keys : k # r => keyv_new'[k] = keyv_new[k]
        BY <1>1, <2>2
      <3>3. QED
        BY <2>3, <3>1, <3>2 DEF RoleIInv, SaidInv
    <2>6. \A n \in DOMAIN written' : written'[n] \subseteq Said' \intersect BoundRoles
      <3>1. /\ Len(written') = Len(written) + 1 /\ written' \in Seq(SUBSET Keys)
            /\ written'[Len(written) + 1] = keyv'
            /\ \A n \in 1..Len(written) : written'[n] = written[n]
        BY <1>1, <2>3, AppendKeeps
      <3>2. \A n \in 1..Len(written) : written[n] \subseteq Said \intersect BoundRoles
        BY <1>1 DEF RoleIInv, SaidInv
      <3>3. keyv' \subseteq Said' \intersect BoundRoles
        BY <2>4
      <3>4. ASSUME NEW n \in 1..(Len(written) + 1)
            PROVE  written'[n] \subseteq Said' \intersect BoundRoles
        <4>1. n \in 1..Len(written) \/ n = Len(written) + 1
          BY <1>1
        <4>2. QED
          BY <1>2, <3>1, <3>2, <3>3, <4>1
      <3>5. DOMAIN written' = 1..(Len(written) + 1)
        BY <3>1
      <3>6. QED
        BY <3>4, <3>5
    <2>7. QED
      BY <1>2, <2>2, <2>4, <2>5, <2>6 DEF SaidInv
  <1>4. CASE r \notin BoundRoles
    <2>1. UNCHANGED <<keyv, keyv_new, written, last_keyv>>
      BY <1>4 DEF SendSelfState, vars, clientVars, serverVars
    <2>2. QED
      BY <1>2, <1>4, <2>1 DEF RoleIInv, SaidInv
  <1>5. QED
    BY <1>3, <1>4

LEMMA AnnouncingKeeps ==
    ASSUME RoleIInv, IInv', role' \in Roles, NEW r \in Roles, SendSelfState(r),
           UNCHANGED <<alive, aiState, dropped>>
    PROVE  RoleIInv'
  <1>1. /\ announced' \in Seq(Roles) /\ Said' = Said \union {r}
        /\ SaidInv' /\ last_keyv' = last_keyv
    BY SendSelfStateKeeps
  <1>2. RoleTypes'
    BY <1>1 DEF RoleIInv, RoleTypes, RoleTypeOK, IInv
  <1>3. ShownInv'
    <2>1. aiState' # 0 => aiState' \in Said'
      BY <1>1 DEF RoleIInv, ShownInv
    <2>2. ASSUME NEW k \in BoundRoles, Said' \intersect BoundRoles = {k}, k \in last_keyv'
          PROVE  aiState' = k \/ k \in dropped'
      <3>1. k \in Said
        BY <1>1, <2>2, HeldIsSaid DEF RoleIInv
      <3>2. Said \intersect BoundRoles = {k}
        BY <1>1, <2>2, <3>1
      <3>3. QED
        BY <1>1, <2>2, <3>2 DEF RoleIInv, ShownInv
    <2>3. QED
      BY <2>1, <2>2 DEF ShownInv
  <1>4. QED
    BY <1>1, <1>2, <1>3 DEF RoleIInv

(* What neither presses a key nor changes the server's vector.             *)
LEMMA OtherStepsKeep ==
    ASSUME RoleIInv, IInv', alive' \in BOOLEAN,
           UNCHANGED <<keyv, keyv_new, written, last_keyv, role, announced, aiState, dropped>>
    PROVE  RoleIInv'
  <1>1. RoleTypes'
    BY DEF RoleIInv, RoleTypes, RoleTypeOK, IInv
  <1>2. Said' = Said
    BY DEF Said
  <1>3. SaidInv'
    BY <1>2 DEF RoleIInv, SaidInv
  <1>4. ShownInv'
    BY <1>2 DEF RoleIInv, ShownInv
  <1>5. QED
    BY <1>1, <1>3, <1>4 DEF RoleIInv

LEMMA HandleKeyboardKeeps ==
    ASSUME RoleIInv, IInv', NEW d \in keyboards, HandleKeyboard(d)
    PROVE  RoleIInv'
  <1> DEFINE down == last_keyv' \ last_keyv
  <1>1. /\ UNCHANGED <<keyv, keyv_new, written, role, announced, alive>>
        /\ aiState' = ShownAfter(down)
        /\ dropped' = IF alive THEN dropped ELSE dropped \union down
    BY DEF HandleKeyboard, ReceiveKeyboard, clientVars
  <1>2. last_keyv' = last_keyv \/ last_keyv' = d.keyv
    BY DEF HandleKeyboard, ReceiveKeyboard, serverVars
  <1>3. /\ last_keyv \subseteq Said \intersect BoundRoles
        /\ last_keyv' \subseteq Said \intersect BoundRoles
        /\ down \in SUBSET Keys
    BY <1>2, HeldIsSaid DEF RoleIInv, IInv, TypeOK
  <1>4. Said' = Said
    BY <1>1 DEF Said
  <1>5. /\ ShownAfter(down) = aiState \/ ShownAfter(down) \in down
        /\ alive /\ down # {} => ShownAfter(down) \in down
        /\ ~alive => ShownAfter(down) = aiState
    BY <1>3, ShownIsDown DEF ShownAfter
  <1>6. RoleTypes'
    <2>1. Keys \subseteq 0..8
      BY RoleAssumption
    <2>2. aiState' \in 0..8 /\ dropped' \subseteq Keys
      BY <1>1, <1>3, <1>5, <2>1 DEF RoleIInv, RoleTypes, RoleTypeOK
    <2>3. QED
      BY <1>1, <2>2 DEF RoleIInv, RoleTypes, RoleTypeOK, IInv
  <1>7. SaidInv'
    BY <1>1, <1>4 DEF RoleIInv, SaidInv
  <1>8. aiState' # 0 => aiState' \in Said'
    BY <1>1, <1>3, <1>4, <1>5 DEF RoleIInv, ShownInv
  <1>9. ASSUME NEW r \in BoundRoles, Said' \intersect BoundRoles = {r}, r \in last_keyv'
        PROVE  aiState' = r \/ r \in dropped'
    <2>1. Said \intersect BoundRoles = {r} /\ down \subseteq {r}
      BY <1>3, <1>4, <1>9
    <2>2. CASE r \in last_keyv
      <3>1. down = {}
        BY <2>1, <2>2
      <3>2. aiState' = aiState /\ dropped' = dropped
        BY <1>1, <3>1 DEF ShownAfter
      <3>3. QED
        BY <2>1, <2>2, <3>2 DEF RoleIInv, ShownInv
    <2>3. CASE r \notin last_keyv
      <3>1. down = {r}
        BY <1>9, <2>1, <2>3
      <3>2. QED
        BY <1>1, <1>5, <3>1
    <2>4. QED
      BY <2>2, <2>3
  <1>10. QED
    BY <1>4, <1>6, <1>7, <1>8, <1>9 DEF RoleIInv, ShownInv

LEMMA RecoverKeeps ==
    ASSUME RoleIInv, IInv', Recover
    PROVE  RoleIInv'
  <1>1. /\ UNCHANGED <<keyv, keyv_new, written, role, announced, aiState>>
        /\ last_keyv' = {} /\ dropped' = {} /\ alive' = TRUE
    BY DEF Recover, GoHome, clientVars
  <1>2. RoleTypes'
    BY <1>1 DEF RoleIInv, RoleTypes, RoleTypeOK, IInv
  <1>3. Said' = Said
    BY <1>1 DEF Said
  <1>4. SaidInv'
    BY <1>1, <1>3 DEF RoleIInv, SaidInv
  <1>5. ShownInv'
    BY <1>1, <1>3 DEF RoleIInv, ShownInv
  <1>6. QED
    BY <1>2, <1>4, <1>5 DEF RoleIInv

LEMMA NextRoleIInv == RoleIInv /\ [RoleNext]_allVars => RoleIInv'
  <1> SUFFICES ASSUME RoleIInv, [RoleNext]_allVars
               PROVE  RoleIInv'
    OBVIOUS
  <1>1. role \in Roles /\ alive \in BOOLEAN
    BY DEF RoleIInv, RoleTypes, RoleTypeOK
  <1>2. IInv'
    BY <1>1, LinkUsed, NextIInv DEF RoleIInv, RoleTypes
  <1>3. CASE Announce
    BY <1>1, <1>2, <1>3, AnnouncingKeeps DEF Announce
  <1>4. ASSUME NEW r \in Roles, SwitchRole(r)
        PROVE  RoleIInv'
    BY <1>2, <1>4, AnnouncingKeeps DEF SwitchRole
  <1>5. CASE LinkStep
    <2>1. UNCHANGED <<keyv, keyv_new, written, last_keyv>>
      BY <1>5 DEF LinkStep, ReceiveFrame, FinishFrame, SendFrame, LoseKeyboard,
                  clientVars, serverVars
    <2>2. UNCHANGED roleVars
      BY <1>5 DEF LinkStep
    <2>3. QED
      BY <1>1, <1>2, <2>1, <2>2, OtherStepsKeep DEF roleVars
  <1>6. ASSUME NEW d \in keyboards, HandleKeyboard(d)
        PROVE  RoleIInv'
    BY <1>2, <1>6, HandleKeyboardKeeps
  <1>7. CASE Die
    BY <1>2, <1>7, OtherStepsKeep DEF Die, vars, clientVars, serverVars
  <1>8. CASE Recover
    BY <1>2, <1>8, RecoverKeeps
  <1>9. CASE UNCHANGED allVars
    BY <1>1, <1>2, <1>9, OtherStepsKeep DEF allVars, vars, clientVars, serverVars, roleVars
  <1>10. QED
    BY <1>3, <1>4, <1>5, <1>6, <1>7, <1>8, <1>9 DEF RoleNext

LEMMA RoleInvariance == RoleSpec => []RoleIInv
  BY InitRoleIInv, NextRoleIInv, PTL DEF RoleSpec

(* Announcing roles is a way of using the keyboard link: whatever holds of *)
(* KeyboardLink holds while roles are announced, players die and recover.  *)
THEOREM RolesUseLink == RoleSpec => Spec
  <1>1. RoleInit => Init
    BY DEF RoleInit
  <1>2. RoleInit => role \in Roles
    BY DEF RoleInit
  <1>3. QED
    BY <1>1, <1>2, RoleStays, LinkUsed, PTL DEF RoleSpec, Spec

(* The role shown is one the bot has announced, for any roles and keys     *)
(* (Handle_keyboard, sendSelfState).                                       *)
THEOREM RolesAreAnnounced == RoleSpec => []RoleInv
  <1>1. RoleIInv => RoleInv
    BY DEF RoleIInv, RoleTypes, RoleInv, ShownInv, Said, Elements, ShownWasAnnounced
  <1>2. QED
    BY <1>1, RoleInvariance, PTL

(* The only bound role a bee has announced is shown once it is             *)
(* acknowledged, unless the player was dead then.                          *)
THEOREM FirstRoleShown == RoleSpec => []FirstRoleKnown
  <1>1. RoleIInv => FirstRoleKnown
    <2> SUFFICES ASSUME RoleIInv, NEW r \in BoundRoles,
                        Said \intersect BoundRoles = {r}, ~Unacked, ~wiped
                 PROVE  aiState = r \/ r \in dropped
      BY DEF FirstRoleKnown, Said, Elements
    <2>1. last_keyv = keyv
      BY DEF RoleIInv, RoleTypes, IInv, TypeOK, HistoryInv, KeyboardInv, AckInv, Unacked
    <2>2. keyv = {r}
      BY DEF RoleIInv, SaidInv
    <2>3. QED
      BY <2>1, <2>2 DEF RoleIInv, ShownInv
  <1>2. QED
    BY <1>1, RoleInvariance, PTL
=============================================================================
