--------------------------- MODULE MQServerProofs ---------------------------
(***************************************************************************)
(* Proofs for MQServer, for any sets of topics, callers and subscribers    *)
(* and any bounds.  IInv (module MQServer) says who is responsible for     *)
(* every consuming subscriber at every step; NoOrphanConsumer alone is not *)
(* inductive, because it says nothing about the states inside a            *)
(* registration or a Stop.  One lemma per action, then the theorems.       *)
(***************************************************************************)
EXTENDS MQServer, TLAPS

\* A new server (NewServer) satisfies the inductive invariant.
LEMMA InitIInv == Init => IInv
<1> SUFFICES ASSUME Init PROVE IInv
  BY Zenon
<1> USE MQServerAssumption DEF Init, NoSubs
<1>1. TypeOK
  <2>1. started \in BOOLEAN /\ err \in BOOLEAN /\ connected \in BOOLEAN /\ errs \in BOOLEAN
    BY Zenon
  <2>2. kaCount \in Nat /\ keepalive \in 0..kaCount
    OBVIOUS
  <2> QED BY <2>1, <2>2, Zenon DEF TypeOK, Registrars, PCs, StartPCs, StopPCs
<1>2. RegistrarsOK /\ StartStopOK /\ KeepaliveOK
  BY Zenon DEF RegistrarsOK, StartStopOK, KeepaliveOK
<1>3. Held(subscribers) \cup Held(brokerSubs) \subseteq used
  BY Zenon DEF Held
<1>4. Live \subseteq Held(subscribers) \cup InRegistration \cup stopSubs
  BY Zenon DEF Live
<1> QED BY <1>1, <1>2, <1>3, <1>4, Zenon DEF IInv

\* RegisterSubscriber, the step of RegisterSubscriber, preserves the inductive invariant.
LEMMA RegisterSubscriberStep ==
    ASSUME IInv, NEW c \in Callers, NEW t \in CallerTopics[c], RegisterSubscriber(c, t)
    PROVE  IInv'
<1> USE MQServerAssumption DEF IInv, RegisterSubscriber, EnterRegister, serverVars, brokerVars, subVars, regVars,
         startVars, stopVars, kaVars, histVars
<1>0. t \in Topics /\ c \in Registrars
  BY Zenon DEF Registrars
<1> USE <1>0
<1>1. TypeOK'
  BY DEF TypeOK, RegistrarsOK, PCs, StartPCs, StopPCs, Registrars, NoSubs, Held
<1>2. RegistrarsOK'
  BY DEF TypeOK, RegistrarsOK, Registrars
<1>3. StartStopOK'
  BY Zenon DEF TypeOK, StartStopOK, NoSubs, Held
<1>4. KeepaliveOK'
  BY Zenon DEF TypeOK, KeepaliveOK, StartStopOK
<1>5. (Held(subscribers) \cup Held(brokerSubs) \subseteq used)'
  BY DEF TypeOK, RegistrarsOK, Held, NoSubs, Registrars
<1>6. (Live \subseteq Held(subscribers) \cup InRegistration \cup stopSubs)'
  BY DEF TypeOK, RegistrarsOK, StartStopOK, Held, NoSubs, Live, InRegistration, Registrars
<1> QED BY <1>1, <1>2, <1>3, <1>4, <1>5, <1>6, Zenon

\* SubscribeGet, the step of the broker's Subscribe, preserves the inductive invariant.
LEMMA SubscribeGetStep ==
    ASSUME IInv, NEW r \in Registrars, SubscribeGet(r)
    PROVE  IInv'
<1> USE MQServerAssumption DEF IInv, SubscribeGet, serverVars, brokerVars, subVars, regVars,
         startVars, stopVars, kaVars, histVars
<1>1. TypeOK'
  BY DEF TypeOK, RegistrarsOK, PCs, StartPCs, StopPCs, Registrars, NoSubs, Held
<1>2. RegistrarsOK'
  BY DEF TypeOK, RegistrarsOK, Registrars, Held
<1>3. StartStopOK'
  BY Zenon DEF TypeOK, StartStopOK, NoSubs, Held
<1>4. KeepaliveOK'
  BY Zenon DEF TypeOK, KeepaliveOK, StartStopOK
<1>5. (Held(subscribers) \cup Held(brokerSubs) \subseteq used)'
  BY DEF TypeOK, RegistrarsOK, Held, NoSubs, Registrars
<1>6. (Live \subseteq Held(subscribers) \cup InRegistration \cup stopSubs)'
  BY DEF TypeOK, RegistrarsOK, StartStopOK, Held, NoSubs, Live, InRegistration, Registrars
<1> QED BY <1>1, <1>2, <1>3, <1>4, <1>5, <1>6, Zenon

\* SubscribeUnsubOld, the step of the broker's Subscribe, preserves the inductive invariant.
LEMMA SubscribeUnsubOldStep ==
    ASSUME IInv, NEW r \in Registrars, SubscribeUnsubOld(r)
    PROVE  IInv'
<1> USE MQServerAssumption DEF IInv, SubscribeUnsubOld, serverVars, brokerVars, subVars, regVars,
         startVars, stopVars, kaVars, histVars
<1>1. TypeOK'
  BY DEF TypeOK, RegistrarsOK, PCs, StartPCs, StopPCs, Registrars, NoSubs, Held
<1>2. RegistrarsOK'
  BY Zenon DEF TypeOK, RegistrarsOK, Registrars
<1>3. StartStopOK'
  BY Zenon DEF TypeOK, StartStopOK, NoSubs, Held
<1>4. KeepaliveOK'
  BY Zenon DEF TypeOK, KeepaliveOK, StartStopOK
<1>5. (Held(subscribers) \cup Held(brokerSubs) \subseteq used)'
  BY DEF TypeOK, RegistrarsOK, Held, NoSubs, Registrars
<1>6. (Live \subseteq Held(subscribers) \cup InRegistration \cup stopSubs)'
  BY DEF TypeOK, RegistrarsOK, StartStopOK, Held, NoSubs, Live, InRegistration, Registrars
<1> QED BY <1>1, <1>2, <1>3, <1>4, <1>5, <1>6, Zenon

\* SubscribeAdd, the step of the broker's Subscribe, preserves the inductive invariant.
LEMMA SubscribeAddStep ==
    ASSUME IInv, NEW r \in Registrars, SubscribeAdd(r)
    PROVE  IInv'
<1> USE MQServerAssumption DEF IInv, SubscribeAdd, serverVars, brokerVars, subVars, regVars,
         startVars, stopVars, kaVars, histVars
<1>1. TypeOK'
  BY DEF TypeOK, RegistrarsOK, PCs, StartPCs, StopPCs, Registrars, NoSubs, Held
<1>2. RegistrarsOK'
  BY Zenon DEF TypeOK, RegistrarsOK, Registrars
<1>3. StartStopOK'
  BY Zenon DEF TypeOK, StartStopOK, NoSubs, Held
<1>4. KeepaliveOK'
  BY Zenon DEF TypeOK, KeepaliveOK, StartStopOK
<1>5. (Held(subscribers) \cup Held(brokerSubs) \subseteq used)'
  BY DEF TypeOK, RegistrarsOK, Held, NoSubs, Registrars
<1>6. (Live \subseteq Held(subscribers) \cup InRegistration \cup stopSubs)'
  BY DEF TypeOK, RegistrarsOK, StartStopOK, Held, NoSubs, Live, InRegistration, Registrars
<1> QED BY <1>1, <1>2, <1>3, <1>4, <1>5, <1>6, Zenon

\* DeclareFail, the step of the broker's Subscribe, preserves the inductive invariant.
LEMMA DeclareFailStep ==
    ASSUME IInv, NEW r \in Registrars, DeclareFail(r)
    PROVE  IInv'
<1> USE MQServerAssumption DEF IInv, DeclareFail, Return, serverVars, brokerVars, subVars, regVars,
         startVars, stopVars, kaVars, histVars
<1>1. TypeOK'
  <2>1. errs' \in BOOLEAN
    BY Zenon DEF TypeOK
  <2>2. pc' \in [Registrars -> PCs] /\ tp' \in [Registrars -> Topics \cup {NoTopic}]
    BY Zenon DEF TypeOK, PCs
  <2>3. sb' \in [Registrars -> used' \cup {NoSub}] /\ old' \in [Registrars -> used' \cup {NoSub}]
    BY Zenon DEF TypeOK
  <2>4. brokerSubs' \in [Topics -> Subs \cup {NoSub}]
    BY Zenon DEF TypeOK
  <2> QED BY <2>1, <2>2, <2>3, <2>4, Zenon DEF TypeOK
<1>2. RegistrarsOK'
  BY Zenon DEF TypeOK, RegistrarsOK, Registrars
<1>3. StartStopOK'
  BY Zenon DEF TypeOK, StartStopOK, NoSubs, Held
<1>4. KeepaliveOK'
  BY Zenon DEF TypeOK, KeepaliveOK, StartStopOK
<1>5. (Held(subscribers) \cup Held(brokerSubs) \subseteq used)'
  BY DEF TypeOK, RegistrarsOK, Held, NoSubs, Registrars
<1>6. (Live \subseteq Held(subscribers) \cup InRegistration \cup stopSubs)'
  BY DEF TypeOK, RegistrarsOK, StartStopOK, Held, NoSubs, Live, InRegistration, Registrars
<1> QED BY <1>1, <1>2, <1>3, <1>4, <1>5, <1>6, Zenon

\* DeclareOK, the step of the broker's Subscribe, preserves the inductive invariant.
LEMMA DeclareOKStep ==
    ASSUME IInv, NEW r \in Registrars, DeclareOK(r)
    PROVE  IInv'
<1> USE MQServerAssumption DEF IInv, DeclareOK, serverVars, brokerVars, subVars, regVars,
         startVars, stopVars, kaVars, histVars
<1>1. TypeOK'
  BY DEF TypeOK, RegistrarsOK, PCs, StartPCs, StopPCs, Registrars, NoSubs, Held
<1>2. RegistrarsOK'
  BY Zenon DEF TypeOK, RegistrarsOK, Registrars
<1>3. StartStopOK'
  BY Zenon DEF TypeOK, StartStopOK, NoSubs, Held
<1>4. KeepaliveOK'
  BY Zenon DEF TypeOK, KeepaliveOK, StartStopOK
<1>5. (Held(subscribers) \cup Held(brokerSubs) \subseteq used)'
  BY DEF TypeOK, RegistrarsOK, Held, NoSubs, Registrars
<1>6. (Live \subseteq Held(subscribers) \cup InRegistration \cup stopSubs)'
  BY DEF TypeOK, RegistrarsOK, StartStopOK, Held, NoSubs, Live, InRegistration, Registrars
<1> QED BY <1>1, <1>2, <1>3, <1>4, <1>5, <1>6, Zenon

\* RecordSubscriber, the step of doRegisterSubscriber, preserves the inductive invariant.
LEMMA RecordSubscriberStep ==
    ASSUME IInv, NEW r \in Registrars, RecordSubscriber(r)
    PROVE  IInv'
<1> USE MQServerAssumption DEF IInv, RecordSubscriber, serverVars, brokerVars, subVars, regVars,
         startVars, stopVars, kaVars, histVars
<1>1. TypeOK'
  BY DEF TypeOK, RegistrarsOK, PCs, StartPCs, StopPCs, Registrars, NoSubs, Held
<1>2. RegistrarsOK'
  BY Zenon DEF TypeOK, RegistrarsOK, Registrars
<1>3. StartStopOK'
  BY Zenon DEF TypeOK, StartStopOK, NoSubs, Held
<1>4. KeepaliveOK'
  BY Zenon DEF TypeOK, KeepaliveOK, StartStopOK
<1>5. (Held(subscribers) \cup Held(brokerSubs) \subseteq used)'
  BY DEF TypeOK, RegistrarsOK, Held, NoSubs, Registrars
<1>6. (Live \subseteq Held(subscribers) \cup InRegistration \cup stopSubs)'
  BY DEF TypeOK, RegistrarsOK, StartStopOK, Held, NoSubs, Live, InRegistration, Registrars
<1> QED BY <1>1, <1>2, <1>3, <1>4, <1>5, <1>6, Zenon

\* UnsubscribeReplaced, the step of doRegisterSubscriber, preserves the inductive invariant.
LEMMA UnsubscribeReplacedStep ==
    ASSUME IInv, NEW r \in Registrars, UnsubscribeReplaced(r)
    PROVE  IInv'
<1> USE MQServerAssumption DEF IInv, UnsubscribeReplaced, Return, serverVars, brokerVars, subVars, regVars,
         startVars, stopVars, kaVars, histVars
<1>1. TypeOK'
  BY DEF TypeOK, RegistrarsOK, PCs, StartPCs, StopPCs, Registrars, NoSubs, Held
<1>2. RegistrarsOK'
  BY Zenon DEF TypeOK, RegistrarsOK, Registrars
<1>3. StartStopOK'
  BY Zenon DEF TypeOK, StartStopOK, NoSubs, Held
<1>4. KeepaliveOK'
  BY Zenon DEF TypeOK, KeepaliveOK, StartStopOK
<1>5. (Held(subscribers) \cup Held(brokerSubs) \subseteq used)'
  BY DEF TypeOK, RegistrarsOK, Held, NoSubs, Registrars
<1>6. (Live \subseteq Held(subscribers) \cup InRegistration \cup stopSubs)'
  BY DEF TypeOK, RegistrarsOK, StartStopOK, Held, NoSubs, Live, InRegistration, Registrars
<1> QED BY <1>1, <1>2, <1>3, <1>4, <1>5, <1>6, Zenon

\* StartCall, the step of Start, preserves the inductive invariant.
LEMMA StartCallStep ==
    ASSUME IInv, StartCall
    PROVE  IInv'
<1> USE MQServerAssumption DEF IInv, StartCall, serverVars, brokerVars, subVars, regVars,
         startVars, stopVars, kaVars, histVars
<1>1. TypeOK'
  BY DEF TypeOK, RegistrarsOK, PCs, StartPCs, StopPCs, Registrars, NoSubs, Held
<1>2. RegistrarsOK'
  BY Zenon DEF TypeOK, RegistrarsOK, Registrars
<1>3. StartStopOK'
  BY Zenon DEF TypeOK, StartStopOK, NoSubs, Held
<1>4. KeepaliveOK'
  BY Zenon DEF TypeOK, KeepaliveOK, StartStopOK
<1>5. (Held(subscribers) \cup Held(brokerSubs) \subseteq used)'
  BY DEF TypeOK, RegistrarsOK, Held, NoSubs, Registrars
<1>6. (Live \subseteq Held(subscribers) \cup InRegistration \cup stopSubs)'
  BY DEF TypeOK, RegistrarsOK, StartStopOK, Held, NoSubs, Live, InRegistration, Registrars
<1> QED BY <1>1, <1>2, <1>3, <1>4, <1>5, <1>6, Zenon

\* StartConnect, the step of Start, preserves the inductive invariant.
LEMMA StartConnectStep ==
    ASSUME IInv, StartConnect
    PROVE  IInv'
<1> USE MQServerAssumption DEF IInv, StartConnect, serverVars, brokerVars, subVars, regVars,
         startVars, stopVars, kaVars, histVars
<1>1. TypeOK'
  BY Zenon DEF TypeOK, RegistrarsOK, PCs, StartPCs, StopPCs, Registrars, NoSubs, Held
<1>2. RegistrarsOK'
  BY Zenon DEF TypeOK, RegistrarsOK, Registrars
<1>3. StartStopOK'
  BY Zenon DEF TypeOK, StartStopOK, NoSubs, Held
<1>4. KeepaliveOK'
  BY Zenon DEF TypeOK, KeepaliveOK, StartStopOK
<1>5. (Held(subscribers) \cup Held(brokerSubs) \subseteq used)'
  BY DEF TypeOK, RegistrarsOK, Held, NoSubs, Registrars
<1>6. (Live \subseteq Held(subscribers) \cup InRegistration \cup stopSubs)'
  BY DEF TypeOK, RegistrarsOK, StartStopOK, Held, NoSubs, Live, InRegistration, Registrars
<1> QED BY <1>1, <1>2, <1>3, <1>4, <1>5, <1>6, Zenon

\* StartSetStarted, the step of Start, preserves the inductive invariant.
LEMMA StartSetStartedStep ==
    ASSUME IInv, StartSetStarted
    PROVE  IInv'
<1> USE MQServerAssumption DEF IInv, StartSetStarted, serverVars, brokerVars, subVars, regVars,
         startVars, stopVars, kaVars, histVars
<1>1. TypeOK'
  BY Zenon DEF TypeOK, RegistrarsOK, PCs, StartPCs, StopPCs, Registrars, NoSubs, Held
<1>2. RegistrarsOK'
  BY Zenon DEF TypeOK, RegistrarsOK, Registrars
<1>3. StartStopOK'
  BY Zenon DEF TypeOK, StartStopOK, NoSubs, Held
<1>4. KeepaliveOK'
  BY Zenon DEF TypeOK, KeepaliveOK, StartStopOK
<1>5. (Held(subscribers) \cup Held(brokerSubs) \subseteq used)'
  BY DEF TypeOK, RegistrarsOK, Held, NoSubs, Registrars
<1>6. (Live \subseteq Held(subscribers) \cup InRegistration \cup stopSubs)'
  BY DEF TypeOK, RegistrarsOK, StartStopOK, Held, NoSubs, Live, InRegistration, Registrars
<1> QED BY <1>1, <1>2, <1>3, <1>4, <1>5, <1>6, Zenon

\* StartKeepalive, the step of Start, preserves the inductive invariant.
LEMMA StartKeepaliveStep ==
    ASSUME IInv, StartKeepalive
    PROVE  IInv'
<1> USE MQServerAssumption DEF IInv, StartKeepalive, serverVars, brokerVars, subVars, regVars,
         startVars, stopVars, kaVars, histVars
<1>1. TypeOK'
  BY DEF TypeOK, RegistrarsOK, PCs, StartPCs, StopPCs, Registrars, NoSubs, Held
<1>2. RegistrarsOK'
  BY Zenon DEF TypeOK, RegistrarsOK, Registrars
<1>3. StartStopOK'
  BY Zenon DEF TypeOK, StartStopOK, NoSubs, Held
<1>4. KeepaliveOK'
  BY Zenon DEF TypeOK, KeepaliveOK, StartStopOK
<1>5. (Held(subscribers) \cup Held(brokerSubs) \subseteq used)'
  BY DEF TypeOK, RegistrarsOK, Held, NoSubs, Registrars
<1>6. (Live \subseteq Held(subscribers) \cup InRegistration \cup stopSubs)'
  BY DEF TypeOK, RegistrarsOK, StartStopOK, Held, NoSubs, Live, InRegistration, Registrars
<1> QED BY <1>1, <1>2, <1>3, <1>4, <1>5, <1>6, Zenon

\* TakeSubscriberOpts, the step of doRegisterSubscriberMap, preserves the inductive invariant.
LEMMA TakeSubscriberOptsStep ==
    ASSUME IInv, TakeSubscriberOpts
    PROVE  IInv'
<1> USE MQServerAssumption DEF IInv, TakeSubscriberOpts, serverVars, brokerVars, subVars, regVars,
         startVars, stopVars, kaVars, histVars
<1>1. TypeOK'
  BY Zenon DEF TypeOK, RegistrarsOK, PCs, StartPCs, StopPCs, Registrars, NoSubs, Held
<1>2. RegistrarsOK'
  BY Zenon DEF TypeOK, RegistrarsOK, Registrars
<1>3. StartStopOK'
  BY Zenon DEF TypeOK, StartStopOK, NoSubs, Held
<1>4. KeepaliveOK'
  BY Zenon DEF TypeOK, KeepaliveOK, StartStopOK
<1>5. (Held(subscribers) \cup Held(brokerSubs) \subseteq used)'
  BY DEF TypeOK, RegistrarsOK, Held, NoSubs, Registrars
<1>6. (Live \subseteq Held(subscribers) \cup InRegistration \cup stopSubs)'
  BY DEF TypeOK, RegistrarsOK, StartStopOK, Held, NoSubs, Live, InRegistration, Registrars
<1> QED BY <1>1, <1>2, <1>3, <1>4, <1>5, <1>6, Zenon

\* StartRegister, the step of doRegisterSubscriberMap, preserves the inductive invariant.
LEMMA StartRegisterStep ==
    ASSUME IInv, StartRegister
    PROVE  IInv'
<1> USE MQServerAssumption DEF IInv, StartRegister, EnterRegister, serverVars, brokerVars, subVars, regVars,
         startVars, stopVars, kaVars, histVars
<1>1. TypeOK'
  BY DEF TypeOK, RegistrarsOK, PCs, StartPCs, StopPCs, Registrars, NoSubs, Held
<1>2. RegistrarsOK'
  BY DEF TypeOK, RegistrarsOK, Registrars
<1>3. StartStopOK'
  BY Zenon DEF TypeOK, StartStopOK, NoSubs, Held
<1>4. KeepaliveOK'
  BY Zenon DEF TypeOK, KeepaliveOK, StartStopOK
<1>5. (Held(subscribers) \cup Held(brokerSubs) \subseteq used)'
  BY DEF TypeOK, RegistrarsOK, Held, NoSubs, Registrars
<1>6. (Live \subseteq Held(subscribers) \cup InRegistration \cup stopSubs)'
  BY DEF TypeOK, RegistrarsOK, StartStopOK, Held, NoSubs, Live, InRegistration, Registrars
<1> QED BY <1>1, <1>2, <1>3, <1>4, <1>5, <1>6, Zenon

\* StartReturn, the step of Start, preserves the inductive invariant.
LEMMA StartReturnStep ==
    ASSUME IInv, StartReturn
    PROVE  IInv'
<1> USE MQServerAssumption DEF IInv, StartReturn, serverVars, brokerVars, subVars, regVars,
         startVars, stopVars, kaVars, histVars
<1>1. TypeOK'
  BY Zenon DEF TypeOK, RegistrarsOK, PCs, StartPCs, StopPCs, Registrars, NoSubs, Held
<1>2. RegistrarsOK'
  BY Zenon DEF TypeOK, RegistrarsOK, Registrars
<1>3. StartStopOK'
  BY Zenon DEF TypeOK, StartStopOK, NoSubs, Held
<1>4. KeepaliveOK'
  BY Zenon DEF TypeOK, KeepaliveOK, StartStopOK
<1>5. (Held(subscribers) \cup Held(brokerSubs) \subseteq used)'
  BY DEF TypeOK, RegistrarsOK, Held, NoSubs, Registrars
<1>6. (Live \subseteq Held(subscribers) \cup InRegistration \cup stopSubs)'
  BY DEF TypeOK, RegistrarsOK, StartStopOK, Held, NoSubs, Live, InRegistration, Registrars
<1> QED BY <1>1, <1>2, <1>3, <1>4, <1>5, <1>6, Zenon

\* StopCall, the step of Stop, preserves the inductive invariant.
LEMMA StopCallStep ==
    ASSUME IInv, StopCall
    PROVE  IInv'
<1> USE MQServerAssumption DEF IInv, StopCall, serverVars, brokerVars, subVars, regVars,
         startVars, stopVars, kaVars, histVars
<1>1. TypeOK'
  <2> USE DEF TypeOK, StopPCs
  <2>1. started' \in BOOLEAN /\ err' \in BOOLEAN /\ connected' \in BOOLEAN
    BY Zenon
  <2>2. stopPc' \in StopPCs /\ stops' \in Nat
    OBVIOUS
  <2>3. keepalive' \in 0..kaCount /\ kaStopped' \subseteq 1..kaCount
    BY Zenon
  <2> QED BY <2>1, <2>2, <2>3, Zenon
<1>2. RegistrarsOK'
  BY Zenon DEF TypeOK, RegistrarsOK, Registrars
<1>3. StartStopOK'
  BY Zenon DEF TypeOK, StartStopOK, NoSubs, Held
<1>4. KeepaliveOK'
  BY Zenon DEF TypeOK, KeepaliveOK, StartStopOK
<1>5. (Held(subscribers) \cup Held(brokerSubs) \subseteq used)'
  BY DEF TypeOK, RegistrarsOK, Held, NoSubs, Registrars
<1>6. (Live \subseteq Held(subscribers) \cup InRegistration \cup stopSubs)'
  BY DEF TypeOK, RegistrarsOK, StartStopOK, Held, NoSubs, Live, InRegistration, Registrars
<1> QED BY <1>1, <1>2, <1>3, <1>4, <1>5, <1>6, Zenon

\* StopSwap, the step of Stop, preserves the inductive invariant.
LEMMA StopSwapStep ==
    ASSUME IInv, StopSwap
    PROVE  IInv'
<1> USE MQServerAssumption DEF IInv, StopSwap, serverVars, brokerVars, subVars, regVars,
         startVars, stopVars, kaVars, histVars
<1>1. TypeOK'
  BY Zenon DEF TypeOK, RegistrarsOK, PCs, StartPCs, StopPCs, Registrars, NoSubs, Held
<1>2. RegistrarsOK'
  BY Zenon DEF TypeOK, RegistrarsOK, Registrars
<1>3. StartStopOK'
  BY Zenon DEF TypeOK, StartStopOK, NoSubs, Held
<1>4. KeepaliveOK'
  BY Zenon DEF TypeOK, KeepaliveOK, StartStopOK
<1>5. (Held(subscribers) \cup Held(brokerSubs) \subseteq used)'
  BY Zenon DEF TypeOK, RegistrarsOK, Held, NoSubs, Registrars
<1>6. (Live \subseteq Held(subscribers) \cup InRegistration \cup stopSubs)'
  BY DEF TypeOK, RegistrarsOK, StartStopOK, Held, NoSubs, Live, InRegistration, Registrars
<1> QED BY <1>1, <1>2, <1>3, <1>4, <1>5, <1>6, Zenon

\* StopUnsubscribe, the step of Stop, preserves the inductive invariant.
LEMMA StopUnsubscribeStep ==
    ASSUME IInv, StopUnsubscribe
    PROVE  IInv'
<1> USE MQServerAssumption DEF IInv, StopUnsubscribe, serverVars, brokerVars, subVars, regVars,
         startVars, stopVars, kaVars, histVars
<1>1. TypeOK'
  BY DEF TypeOK, RegistrarsOK, PCs, StartPCs, StopPCs, Registrars, NoSubs, Held
<1>2. RegistrarsOK'
  BY Zenon DEF TypeOK, RegistrarsOK, Registrars
<1>3. StartStopOK'
  BY Zenon DEF TypeOK, StartStopOK, NoSubs, Held
<1>4. KeepaliveOK'
  BY Zenon DEF TypeOK, KeepaliveOK, StartStopOK
<1>5. (Held(subscribers) \cup Held(brokerSubs) \subseteq used)'
  BY DEF TypeOK, RegistrarsOK, Held, NoSubs, Registrars
<1>6. (Live \subseteq Held(subscribers) \cup InRegistration \cup stopSubs)'
  BY DEF TypeOK, RegistrarsOK, StartStopOK, Held, NoSubs, Live, InRegistration, Registrars
<1> QED BY <1>1, <1>2, <1>3, <1>4, <1>5, <1>6, Zenon

\* DisconnectSwap, the step of the broker's Disconnect, preserves the inductive invariant.
LEMMA DisconnectSwapStep ==
    ASSUME IInv, DisconnectSwap
    PROVE  IInv'
<1> USE MQServerAssumption DEF IInv, DisconnectSwap, serverVars, brokerVars, subVars, regVars,
         startVars, stopVars, kaVars, histVars
<1>1. TypeOK'
  BY Zenon DEF TypeOK, RegistrarsOK, PCs, StartPCs, StopPCs, Registrars, NoSubs, Held
<1>2. RegistrarsOK'
  BY Zenon DEF TypeOK, RegistrarsOK, Registrars
<1>3. StartStopOK'
  BY Zenon DEF TypeOK, StartStopOK, NoSubs, Held
<1>4. KeepaliveOK'
  BY Zenon DEF TypeOK, KeepaliveOK, StartStopOK
<1>5. (Held(subscribers) \cup Held(brokerSubs) \subseteq used)'
  BY Zenon DEF TypeOK, RegistrarsOK, Held, NoSubs, Registrars
<1>6. (Live \subseteq Held(subscribers) \cup InRegistration \cup stopSubs)'
  BY DEF TypeOK, RegistrarsOK, StartStopOK, Held, NoSubs, Live, InRegistration, Registrars
<1> QED BY <1>1, <1>2, <1>3, <1>4, <1>5, <1>6, Zenon

\* DisconnectUnsubscribe, the step of the broker's Disconnect, preserves the inductive invariant.
LEMMA DisconnectUnsubscribeStep ==
    ASSUME IInv, DisconnectUnsubscribe
    PROVE  IInv'
<1> USE MQServerAssumption DEF IInv, DisconnectUnsubscribe, serverVars, brokerVars, subVars, regVars,
         startVars, stopVars, kaVars, histVars
<1>1. TypeOK'
  BY DEF TypeOK, RegistrarsOK, PCs, StartPCs, StopPCs, Registrars, NoSubs, Held
<1>2. RegistrarsOK'
  BY Zenon DEF TypeOK, RegistrarsOK, Registrars
<1>3. StartStopOK'
  BY Zenon DEF TypeOK, StartStopOK, NoSubs, Held
<1>4. KeepaliveOK'
  BY Zenon DEF TypeOK, KeepaliveOK, StartStopOK
<1>5. (Held(subscribers) \cup Held(brokerSubs) \subseteq used)'
  BY DEF TypeOK, RegistrarsOK, Held, NoSubs, Registrars
<1>6. (Live \subseteq Held(subscribers) \cup InRegistration \cup stopSubs)'
  BY DEF TypeOK, RegistrarsOK, StartStopOK, Held, NoSubs, Live, InRegistration, Registrars
<1> QED BY <1>1, <1>2, <1>3, <1>4, <1>5, <1>6, Zenon

\* DisconnectClose, the step of the broker's Disconnect, preserves the inductive invariant.
LEMMA DisconnectCloseStep ==
    ASSUME IInv, DisconnectClose
    PROVE  IInv'
<1> USE MQServerAssumption DEF IInv, DisconnectClose, serverVars, brokerVars, subVars, regVars,
         startVars, stopVars, kaVars, histVars
<1>1. TypeOK'
  BY Zenon DEF TypeOK, RegistrarsOK, PCs, StartPCs, StopPCs, Registrars, NoSubs, Held
<1>2. RegistrarsOK'
  BY Zenon DEF TypeOK, RegistrarsOK, Registrars
<1>3. StartStopOK'
  BY Zenon DEF TypeOK, StartStopOK, NoSubs, Held
<1>4. KeepaliveOK'
  BY Zenon DEF TypeOK, KeepaliveOK, StartStopOK
<1>5. (Held(subscribers) \cup Held(brokerSubs) \subseteq used)'
  BY DEF TypeOK, RegistrarsOK, Held, NoSubs, Registrars
<1>6. (Live \subseteq Held(subscribers) \cup InRegistration \cup stopSubs)'
  BY DEF TypeOK, RegistrarsOK, StartStopOK, Held, NoSubs, Live, InRegistration, Registrars
<1> QED BY <1>1, <1>2, <1>3, <1>4, <1>5, <1>6, Zenon

\* StopFinish, the step of Stop, preserves the inductive invariant.
LEMMA StopFinishStep ==
    ASSUME IInv, StopFinish
    PROVE  IInv'
<1> USE MQServerAssumption DEF IInv, StopFinish, serverVars, brokerVars, subVars, regVars,
         startVars, stopVars, kaVars, histVars
<1>1. TypeOK'
  <2> USE DEF TypeOK, StopPCs
  <2>1. started' \in BOOLEAN /\ err' \in BOOLEAN /\ connected' \in BOOLEAN
    BY Zenon
  <2>2. stopPc' \in StopPCs /\ stops' \in Nat
    BY Zenon
  <2>3. keepalive' \in 0..kaCount /\ kaStopped' \subseteq 1..kaCount
    OBVIOUS
  <2> QED BY <2>1, <2>2, <2>3, Zenon
<1>2. RegistrarsOK'
  BY Zenon DEF TypeOK, RegistrarsOK, Registrars
<1>3. StartStopOK'
  BY Zenon DEF TypeOK, StartStopOK, NoSubs, Held
<1>4. KeepaliveOK'
  BY DEF TypeOK, KeepaliveOK, StartStopOK
<1>5. (Held(subscribers) \cup Held(brokerSubs) \subseteq used)'
  BY DEF TypeOK, RegistrarsOK, Held, NoSubs, Registrars
<1>6. (Live \subseteq Held(subscribers) \cup InRegistration \cup stopSubs)'
  BY DEF TypeOK, RegistrarsOK, StartStopOK, Held, NoSubs, Live, InRegistration, Registrars
<1> QED BY <1>1, <1>2, <1>3, <1>4, <1>5, <1>6, Zenon
\* Every step of Start, Stop and the registrations preserves the invariant.
LEMMA NextIInv == IInv /\ [Next]_vars => IInv'
<1> SUFFICES ASSUME IInv, [Next]_vars PROVE IInv'
  BY Zenon
<1>1. CASE Next
  <2>1. CASE \E c \in Callers : \E t \in CallerTopics[c] : RegisterSubscriber(c, t)
    BY <2>1, RegisterSubscriberStep, Zenon
  <2>2. CASE \E r \in Registrars : DoRegisterSubscriber(r)
    BY <2>2, SubscribeGetStep, SubscribeUnsubOldStep, SubscribeAddStep,
       DeclareFailStep, DeclareOKStep, RecordSubscriberStep,
       UnsubscribeReplacedStep, Zenon DEF DoRegisterSubscriber
  <2>3. CASE StartCall \/ StartSteps
    BY <2>3, StartCallStep, StartConnectStep, StartSetStartedStep,
       StartKeepaliveStep, TakeSubscriberOptsStep, StartRegisterStep,
       StartReturnStep, Zenon DEF StartSteps
  <2>4. CASE StopCall \/ StopSteps
    BY <2>4, StopCallStep, StopSwapStep, StopUnsubscribeStep,
       DisconnectSwapStep, DisconnectUnsubscribeStep, DisconnectCloseStep,
       StopFinishStep, Zenon DEF StopSteps
  <2> QED BY <1>1, <2>1, <2>2, <2>3, <2>4, Zenon DEF Next
<1>2. CASE UNCHANGED vars
  <2> USE <1>2 DEF vars, serverVars, brokerVars, subVars, regVars, startVars,
           stopVars, kaVars, histVars
  <2>1. TypeOK' /\ RegistrarsOK'
    BY Zenon DEF IInv, TypeOK, RegistrarsOK
  <2>2. StartStopOK' /\ KeepaliveOK'
    BY Zenon DEF IInv, StartStopOK, KeepaliveOK
  <2>3. (Held(subscribers) \cup Held(brokerSubs) \subseteq used)'
    BY Zenon DEF IInv, Held
  <2>4. (Live \subseteq Held(subscribers) \cup InRegistration \cup stopSubs)'
    BY Zenon DEF IInv, Held, Live, InRegistration
  <2> QED BY <2>1, <2>2, <2>3, <2>4, Zenon DEF IInv
<1> QED BY <1>1, <1>2, Zenon

\* The inductive invariant holds in every reachable state.
THEOREM InductiveInvariant == Spec => []IInv
  BY InitIInv, NextIInv, PTL DEF Spec

\* Type correctness of the server's and the broker's tables.
THEOREM TypeCorrect == Spec => []TypeOK
<1>1. IInv => TypeOK
  BY Zenon DEF IInv
<1> QED BY <1>1, InductiveInvariant, PTL

\* doRegisterSubscriber, racing Stop and other registrations of the same topic,
\* leaves no consumer that the server no longer holds.
THEOREM OrphanFree == Spec => []NoOrphanConsumer
<1>1. IInv => NoOrphanConsumer
  <2> SUFFICES ASSUME IInv, ~Registering, ~Stopping
               PROVE  Live \subseteq Held(subscribers)
    BY Zenon DEF NoOrphanConsumer
  <2>1. InRegistration = {}
    BY Zenon DEF Registering, InRegistration
  <2>2. stopSubs = {}
    BY Zenon DEF IInv, StartStopOK, Stopping
  <2> QED BY <2>1, <2>2, Zenon DEF IInv
<1> QED BY <1>1, InductiveInvariant, PTL

\* Nothing consumes once Stop has returned and no call is in progress.
THEOREM StoppedSilent == Spec => []StoppedMeansSilent
<1>1. IInv => StoppedMeansSilent
  <2> SUFFICES ASSUME IInv, Quiet, ~started PROVE Live = {}
    BY Zenon DEF StoppedMeansSilent
  <2>1. InRegistration = {}
    BY Zenon DEF Quiet, Registering, InRegistration
  <2>2. stopSubs = {} /\ subscribers = NoSubs
    BY Zenon DEF IInv, StartStopOK, Quiet, Stopping
  <2>3. Held(subscribers) = {}
    BY <2>2, Zenon DEF Held, NoSubs
  <2> QED BY <2>1, <2>2, <2>3, Zenon DEF IInv
<1> QED BY <1>1, InductiveInvariant, PTL

\* Stop is called on every keepalive server that Start spawned.
THEOREM KeepaliveNeverLeft == Spec => []KeepaliveStopped
<1>1. IInv => KeepaliveStopped
  BY Zenon DEF IInv, KeepaliveOK, KeepaliveStopped, Quiet, Stopping
<1> QED BY <1>1, InductiveInvariant, PTL

-----------------------------------------------------------------------------
(* The server keeps the promise of module MQPromise.  Each step of the     *)
(* server is one of the promise's or changes nothing the program sees; a   *)
(* step after which no call is in progress ends at rest, by the invariant  *)
(* in the state it leads to.                                               *)

\* With no call in progress, consumers are in the table, none when stopped.
LEMMA QuietAtRest == IInv /\ Quiet => Promise!AtRest
<1> SUFFICES ASSUME IInv, Quiet PROVE Promise!AtRest
  BY Zenon
<1>1. InRegistration = {}
  BY Zenon DEF Quiet, Registering, InRegistration
<1>2. stopSubs = {} /\ (~started => subscribers = NoSubs)
  BY Zenon DEF IInv, StartStopOK, Quiet, Stopping
<1>3. Live \subseteq Held(subscribers)
  BY <1>1, <1>2, Zenon DEF IInv
<1>4. ~started => Held(subscribers) = {}
  BY <1>2, Zenon DEF Held, NoSubs
<1> QED BY <1>3, <1>4, Zenon DEF Promise!AtRest, Promise!Held, Held

\* The same of the state a step leads to.
LEMMA QuietAtRestNext == IInv' /\ Quiet' => Promise!AtRest'
  BY QuietAtRest, PTL

\* A new server is at rest and stopped.
LEMMA InitPromise == Init => Promise!Init
<1> SUFFICES ASSUME Init PROVE Promise!Init
  BY Zenon
<1>1. Quiet
  BY Zenon DEF Init, Quiet, Registering, Starting, Stopping
<1>2. Live = {} /\ closed = {} /\ subscribers = Promise!Empty /\ ~started
  BY Zenon DEF Init, Live, NoSubs, Promise!Empty
<1> QED BY <1>1, <1>2, Zenon DEF Promise!Init

\* A step that changes neither started nor the tables and consumers begins a
\* call, returns from the last one, or changes nothing the program sees.
LEMMA SilentStep ==
    ASSUME IInv, IInv', UNCHANGED <<started, subscribers, launched, closed>>
    PROVE  [Promise!Next]_Promise!vars
<1>1. UNCHANGED <<started, subscribers, Live, closed>>
  BY Zenon DEF Live
<1>2. Quiet \in BOOLEAN /\ Quiet' \in BOOLEAN
  BY Zenon DEF Quiet, Registering, Starting, Stopping
<1>3. CASE Quiet' = Quiet
  BY <1>1, <1>3, Zenon DEF Promise!vars
<1>4. CASE Quiet /\ ~Quiet'
  BY <1>1, <1>4, Zenon DEF Promise!Next, Promise!Call
<1>5. CASE ~Quiet /\ Quiet'
  <2>1. Promise!AtRest'
    BY <1>5, QuietAtRestNext, Zenon
  <2>2. Promise!AtRest
    BY <2>1, <1>1 DEF Promise!AtRest, Promise!Held
  <2> QED BY <1>1, <1>5, <2>2, Zenon DEF Promise!Next, Promise!Return
<1> QED BY <1>2, <1>3, <1>4, <1>5, Zenon

\* A step that unsubscribes s, if s is a subscriber, is a Release.
LEMMA ReleaseStep ==
    ASSUME IInv, IInv', NEW s \in Subs, ~Quiet, closed' = closed \cup {s},
           UNCHANGED <<started, subscribers, launched>>
    PROVE  [Promise!Next]_Promise!vars
<1>1. Live' = Live \ {s}
  BY Zenon DEF Live
<1>2. Quiet' => Promise!AtRest'
  BY QuietAtRestNext, Zenon
<1>3. (~Quiet)' \in BOOLEAN
  BY Zenon DEF Quiet, Registering, Starting, Stopping
<1> QED BY <1>1, <1>2, <1>3, Zenon DEF Promise!Next, Promise!Release

\* Every step of a registration is one the promise allows.
LEMMA RegisterPromise ==
    ASSUME IInv, IInv', NEW r \in Registrars, DoRegisterSubscriber(r)
    PROVE  [Promise!Next]_Promise!vars
<1> USE DEF serverVars, brokerVars, subVars
<1>0. ~Quiet
  BY Zenon DEF DoRegisterSubscriber, SubscribeGet, SubscribeUnsubOld, SubscribeAdd, DeclareFail,
     DeclareOK, RecordSubscriber, UnsubscribeReplaced, Quiet, Registering
<1>1. CASE SubscribeGet(r) \/ SubscribeAdd(r) \/ DeclareFail(r)
  BY <1>1, SilentStep, Zenon DEF SubscribeGet, SubscribeAdd, DeclareFail
<1>2. CASE SubscribeUnsubOld(r)
  <2>1. old[r] \in Subs
    BY <1>2, Zenon DEF SubscribeUnsubOld, IInv, RegistrarsOK, TypeOK
  <2> QED BY <1>0, <1>2, <2>1, ReleaseStep, Zenon DEF SubscribeUnsubOld
<1>3. CASE DeclareOK(r)
  <2> DEFINE s == sb[r]
  <2>1. s \in Subs
    BY <1>3, Zenon DEF DeclareOK, IInv, RegistrarsOK, TypeOK
  <2>2. ~Quiet'
    BY <1>3, Zenon DEF DeclareOK, Quiet, Registering, IInv, TypeOK
  <2>3. UNCHANGED <<started, subscribers, closed>> /\ launched' = launched \cup {s}
    BY <1>3, Zenon DEF DeclareOK
  <2>4. CASE s \in Live \cup closed
    <3>1. Live' = Live
      BY <2>3, <2>4, Zenon DEF Live
    <3> QED BY <1>0, <2>2, <2>3, <3>1, Zenon DEF Promise!vars
  <2>5. CASE s \notin Live \cup closed
    <3>1. Live' = Live \cup {s}
      BY <2>3, <2>5, Zenon DEF Live
    <3> QED BY <1>0, <2>1, <2>2, <2>3, <2>5, <3>1, Zenon DEF Promise!Next, Promise!Consume
  <2> QED BY <2>4, <2>5, Zenon
<1>4. CASE RecordSubscriber(r)
  <2> DEFINE s == sb[r] t == tp[r]
  <2>1. s \in Subs /\ t \in Topics /\ s \in Live \cup closed
    BY <1>4, Zenon DEF RecordSubscriber, IInv, RegistrarsOK, TypeOK, Live
  <2>2. ~Quiet'
    BY <1>4, Zenon DEF RecordSubscriber, Quiet, Registering, IInv, TypeOK
  <2>3. UNCHANGED <<started, Live, closed>>
    BY <1>4, Zenon DEF RecordSubscriber, Live
  <2>4. CASE started
    BY <1>0, <1>4, <2>1, <2>2, <2>3, <2>4, Zenon DEF RecordSubscriber, Promise!Next, Promise!Record
  <2>5. CASE ~started
    BY <1>0, <1>4, <2>2, <2>3, <2>5, Zenon DEF RecordSubscriber, Promise!vars
  <2> QED BY <2>4, <2>5, Zenon
<1>5. CASE UnsubscribeReplaced(r)
  <2>1. old[r] \in Subs \cup {NoSub}
    BY <1>5, Zenon DEF IInv, TypeOK
  <2>2. CASE old[r] = NoSub
    BY <1>5, <2>2, SilentStep, Zenon DEF UnsubscribeReplaced
  <2>3. CASE old[r] \in Subs
    <3>1. closed' = closed \cup {old[r]}
      BY <1>5, <2>3, MQServerAssumption, Zenon DEF UnsubscribeReplaced
    <3> QED BY <1>0, <1>5, <2>3, <3>1, ReleaseStep, Zenon DEF UnsubscribeReplaced
  <2> QED BY <2>1, <2>2, <2>3, Zenon
<1> QED BY <1>1, <1>2, <1>3, <1>4, <1>5, Zenon DEF DoRegisterSubscriber

\* Every step of Start is one the promise allows.
LEMMA StartPromise ==
    ASSUME IInv, IInv', StartCall \/ StartSteps
    PROVE  [Promise!Next]_Promise!vars
<1> USE DEF serverVars, brokerVars, subVars
<1>1. CASE StartSetStarted
  <2>1. ~Quiet /\ ~Quiet'
    BY <1>1, Zenon DEF StartSetStarted, Quiet, Starting
  <2>2. UNCHANGED <<subscribers, Live, closed>> /\ started'
    BY <1>1, Zenon DEF StartSetStarted, Live
  <2> QED BY <2>1, <2>2, Zenon DEF Promise!Next, Promise!Run
<1>2. CASE ~StartSetStarted
  <2>1. UNCHANGED <<started, subscribers, launched, closed>>
    BY <1>2, Zenon DEF StartSteps, StartCall, StartConnect, StartKeepalive, TakeSubscriberOpts,
       StartRegister, StartReturn
  <2> QED BY <2>1, SilentStep, Zenon
<1> QED BY <1>1, <1>2, Zenon

\* Every step of Stop, the broker's Disconnect included, is one the promise
\* allows.
LEMMA StopPromise ==
    ASSUME IInv, IInv', StopCall \/ StopSteps
    PROVE  [Promise!Next]_Promise!vars
<1> USE DEF serverVars, brokerVars, subVars
<1>1. CASE StopCall
  <2>1. CASE started
    <3>1. ~Quiet'
      BY <1>1, <2>1, Zenon DEF StopCall, Quiet, Stopping
    <3>2. UNCHANGED <<subscribers, Live, closed>> /\ started' = FALSE
      BY <1>1, <2>1, Zenon DEF StopCall, Live
    <3> QED BY <3>1, <3>2, Zenon DEF Promise!Next, Promise!Call
  <2>2. CASE ~started
    BY <1>1, <2>2, SilentStep, Zenon DEF StopCall
  <2> QED BY <2>1, <2>2, Zenon
<1>2. CASE StopSwap
  <2>1. ~Quiet /\ ~Quiet' /\ ~started
    BY <1>2, Zenon DEF StopSwap, Quiet, Stopping, IInv, StartStopOK
  <2>2. UNCHANGED <<started, Live, closed>> /\ subscribers' = Promise!Empty
    BY <1>2, Zenon DEF StopSwap, Live, NoSubs, Promise!Empty
  <2> QED BY <2>1, <2>2, Zenon DEF Promise!Next, Promise!Take
<1>3. CASE StopUnsubscribe \/ DisconnectUnsubscribe
  <2>1. ~Quiet
    BY <1>3, Zenon DEF StopUnsubscribe, DisconnectUnsubscribe, Quiet, Stopping
  <2>2. UNCHANGED <<started, subscribers, launched>>
    BY <1>3, Zenon DEF StopUnsubscribe, DisconnectUnsubscribe
  <2>3. UNCHANGED closed \/ \E s \in Subs : closed' = closed \cup {s}
    BY <1>3, Zenon DEF StopUnsubscribe, DisconnectUnsubscribe, IInv, TypeOK
  <2> QED BY <2>1, <2>2, <2>3, SilentStep, ReleaseStep, Zenon
<1>4. CASE DisconnectSwap \/ DisconnectClose \/ StopFinish
  BY <1>4, SilentStep, Zenon DEF DisconnectSwap, DisconnectClose, StopFinish
<1> QED BY <1>1, <1>2, <1>3, <1>4, Zenon DEF StopSteps

\* Every step of the server is a step of the promise or invisible to it.
LEMMA NextPromise == IInv /\ IInv' /\ [Next]_vars => [Promise!Next]_Promise!vars
<1> SUFFICES ASSUME IInv, IInv', [Next]_vars PROVE [Promise!Next]_Promise!vars
  BY Zenon
<1>1. CASE \E c \in Callers : \E t \in CallerTopics[c] : RegisterSubscriber(c, t)
  BY <1>1, SilentStep, Zenon DEF RegisterSubscriber, subVars
<1>2. CASE UNCHANGED vars
  BY <1>2, SilentStep, Zenon DEF vars, serverVars, subVars
<1> QED BY <1>1, <1>2, RegisterPromise, StartPromise, StopPromise, Zenon DEF Next

\* The server implements its promise: for any callers, topics, bounds and
\* interleavings of Start, Stop and registrations.
THEOREM PromiseKept == Spec => KeepsPromise
<1>1. Spec => Promise!Spec
  BY InitPromise, NextPromise, InductiveInvariant, PTL DEF Spec, Promise!Spec
<1> QED BY <1>1, Zenon DEF KeepsPromise
-----------------------------------------------------------------------------
(* Registrations are not lost, where declaring a queue succeeds on a live  *)
(* connection and Stop waits for Start: without the first, or the second,  *)
(* Start takes a registration out of the cache and drops it with the error.*)

Calm == ~SubscribeMayFail /\ ~StopDuringStart

\* The registration Start is making and has not yet put back into the cache.
InStart == IF pc[Starter] \in {"idle", "cleanup"} THEN {} ELSE {tp[Starter]}

\* The inductive strengthening of RegistrationsKept: a registration that is not
\* in the cache is Start's to make, callers only ever add to the cache, and Start
\* has its connection for as long as it registers.
StartAlone ==
    /\ startPc # "idle" => stopPc = "idle"
    /\ startPc \in {"started", "keepalive", "take", "loop"} => connected
    /\ startPc # "loop" => pending = {} /\ pc[Starter] = "idle"

KeptInv == StartAlone /\ accepted \subseteq subscriberOpts \cup pending \cup InStart

\* A step of the server keeps Start alone with its connection.
LEMMA StartAloneStep ==
    ASSUME Calm, IInv, StartAlone, [Next]_vars
    PROVE  StartAlone'
<1> USE MQServerAssumption DEF StartAlone, Calm, IInv, TypeOK, Registrars, serverVars,
         brokerVars, subVars, regVars, startVars, stopVars, kaVars, histVars
<1>1. CASE \E c \in Callers : \E t \in CallerTopics[c] : RegisterSubscriber(c, t)
  BY <1>1 DEF RegisterSubscriber, EnterRegister
<1>2. ASSUME NEW r \in Registrars, DoRegisterSubscriber(r) PROVE StartAlone'
  BY <1>2, Zenon DEF DoRegisterSubscriber, SubscribeGet, SubscribeUnsubOld, SubscribeAdd,
     DeclareFail, DeclareOK, RecordSubscriber, UnsubscribeReplaced, Return
<1>3. CASE StartCall \/ StartConnect \/ StartSetStarted \/ StartKeepalive
  BY <1>3, Zenon DEF StartCall, StartConnect, StartSetStarted, StartKeepalive
<1>4. CASE TakeSubscriberOpts \/ StartRegister \/ StartReturn
  BY <1>4, Zenon DEF TakeSubscriberOpts, StartRegister, StartReturn, EnterRegister
<1>5. CASE StopCall \/ StopSteps
  BY <1>5, Zenon DEF StopCall, StopSteps, StopSwap, StopUnsubscribe, DisconnectSwap,
     DisconnectUnsubscribe, DisconnectClose, StopFinish
<1>6. CASE UNCHANGED vars
  BY <1>6, Zenon DEF vars
<1> QED BY <1>1, <1>2, <1>3, <1>4, <1>5, <1>6, SMTT(30) DEF Next, StartSteps

\* A step of the server takes no registration out of the cache, out of Start's
\* list or out of Start's hands without passing it on.
LEMMA KeptStep ==
    ASSUME Calm, IInv, KeptInv, [Next]_vars
    PROVE  (accepted \subseteq subscriberOpts \cup pending \cup InStart)'
<1> USE MQServerAssumption DEF KeptInv, InStart, Calm, IInv, TypeOK, Registrars,
         serverVars, regVars, startVars, histVars
<1>1. CASE \E c \in Callers : \E t \in CallerTopics[c] : RegisterSubscriber(c, t)
  BY <1>1 DEF RegisterSubscriber, EnterRegister
<1>2. ASSUME NEW r \in Registrars,
             SubscribeGet(r) \/ SubscribeUnsubOld(r) \/ SubscribeAdd(r) \/ DeclareOK(r)
      PROVE  (accepted \subseteq subscriberOpts \cup pending \cup InStart)'
  <2>1. UNCHANGED <<accepted, subscriberOpts, pending, tp>>
    BY <1>2, Zenon DEF SubscribeGet, SubscribeUnsubOld, SubscribeAdd, DeclareOK
  <2>2. pc[r] \notin {"idle", "cleanup"} /\ pc'[r] \notin {"idle", "cleanup"}
    BY <1>2 DEF SubscribeGet, SubscribeUnsubOld, SubscribeAdd, DeclareOK
  <2>3. r # Starter => pc'[Starter] = pc[Starter]
    BY <1>2, Zenon DEF SubscribeGet, SubscribeUnsubOld, SubscribeAdd, DeclareOK
  <2> QED BY <2>1, <2>2, <2>3, Zenon
<1>3. ASSUME NEW r \in Registrars, RecordSubscriber(r) \/ UnsubscribeReplaced(r)
      PROVE  (accepted \subseteq subscriberOpts \cup pending \cup InStart)'
  BY <1>3, Zenon DEF RecordSubscriber, UnsubscribeReplaced, Return
<1>4. ASSUME NEW r \in Registrars, DeclareFail(r)
      PROVE  (accepted \subseteq subscriberOpts \cup pending \cup InStart)'
  <2>1. r # Starter
    BY <1>4, Zenon DEF DeclareFail, StartAlone
  <2> QED BY <1>4, <2>1, Zenon DEF DeclareFail, Return
<1>5. CASE StartCall \/ StartConnect \/ StartSetStarted \/ StartKeepalive
  <2>1. UNCHANGED <<accepted, subscriberOpts, pending, pc, tp>>
    BY <1>5, Zenon DEF StartCall, StartConnect, StartSetStarted, StartKeepalive
  <2> QED BY <2>1, Zenon
<1>6. CASE TakeSubscriberOpts \/ StartRegister \/ StartReturn
  BY <1>6 DEF TakeSubscriberOpts, StartRegister, StartReturn, EnterRegister, StartAlone
<1>7. CASE StopCall \/ StopSteps
  <2>1. UNCHANGED <<accepted, subscriberOpts, pending, pc, tp>>
    BY <1>7, Zenon DEF StopCall, StopSteps, StopSwap, StopUnsubscribe, DisconnectSwap,
       DisconnectUnsubscribe, DisconnectClose, StopFinish
  <2> QED BY <2>1, Zenon
<1>8. CASE UNCHANGED vars
  BY <1>8, Zenon DEF vars
<1> QED BY <1>1, <1>2, <1>3, <1>4, <1>5, <1>6, <1>7, <1>8, Zenon DEF Next, StartSteps,
        DoRegisterSubscriber

\* No registration is lost: whatever RegisterSubscriber accepted is in the cache
\* or in Start's hands, so the next Start makes it again, for any callers, topics
\* and bounds, as long as subscriptions succeed on a live connection and Stop is
\* not called before Start has returned.
THEOREM NoRegistrationLost == Calm => (Spec => []RegistrationsKept)
<1> SUFFICES ASSUME Calm PROVE Spec => []RegistrationsKept
  BY Zenon
<1>1. Init => KeptInv
  BY MQServerAssumption, Zenon DEF Init, KeptInv, StartAlone, InStart, Registrars
<1>2. IInv /\ KeptInv /\ [Next]_vars => KeptInv'
  BY StartAloneStep, KeptStep, Zenon DEF KeptInv
<1>3. KeptInv => RegistrationsKept
  BY Zenon DEF KeptInv, InStart, RegistrationsKept, Registrars
<1> QED BY <1>1, <1>2, <1>3, InductiveInvariant, PTL DEF Spec
=============================================================================
