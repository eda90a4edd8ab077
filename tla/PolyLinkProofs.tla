---------------------------- MODULE PolyLinkProofs ----------------------------
(***************************************************************************)
(* What an acknowledgement means, and that both services stay well-typed,  *)
(* for any commands, any handlers, any settings of the spools and any      *)
(* behaviour of the line.                                                  *)
(***************************************************************************)
EXTENDS PolyLink, PolySpoolOpsProofs, Sequences

-----------------------------------------------------------------------------

(* The spool operators of the two instances of PolyService are those of    *)
(* PolySpoolOps, about which the lemmas are stated: both instances leave   *)
(* the constants of the spool as they are. First for the client.           *)
LEMMA ClientOperators ==
  /\ \A s, token, flag : Client!Acked(s, token, flag) = Acked(s, token, flag)
  /\ \A s, token, flag : Client!AckMatches(s, token, flag) = AckMatches(s, token, flag)
  /\ \A s, token : Client!AckMatch(s, token) = AckMatch(s, token)
  /\ \A s, p : Client!Pushed(s, p) = Pushed(s, p)
  /\ \A s, p : Client!Stores(s, p) = Stores(s, p)
  /\ \A s : Client!Popped(s) = Popped(s)
  /\ \A s : Client!NextReady(s) = NextReady(s)
  /\ \A s, ms : Client!Ticked(s, ms) = Ticked(s, ms)
  /\ \A u : Client!ToInt(u) = ToInt(u)
  /\ \A retries, timeOut :
       Client!InitialSpool(retries, timeOut) = InitialSpool(retries, timeOut)
<1>1. Client!Slots = Slots /\ Client!ENTRY_NONE = ENTRY_NONE
  BY DEF Client!Slots, Slots, Client!ENTRY_NONE, ENTRY_NONE
<1>2. \A S : Client!FirstOf(S) = FirstOf(S)
  <2>1. \A S : Client!Min(S) = Min(S)
    BY Zenon DEF Client!Min, Min
  <2> QED  BY Zenon, <1>1, <2>1 DEF Client!FirstOf, FirstOf
<1>3. \A s, st : Client!InState(s, st) = InState(s, st)
  BY Zenon, <1>1 DEF Client!InState, InState
<1>4. \A s, token : Client!AckMatch(s, token) = AckMatch(s, token)
  BY Zenon, <1>2, <1>3 DEF Client!AckMatch, AckMatch
<1>5. \A s, token, flag : Client!AckMatches(s, token, flag) = AckMatches(s, token, flag)
  BY Zenon, <1>1, <1>4 DEF Client!AckMatches, AckMatches
<1>6. \A s, token, flag : Client!Acked(s, token, flag) = Acked(s, token, flag)
  <2>1. \A s, i : Client!Released(s, i) = Released(s, i)
    BY Zenon DEF Client!Released, Released, Client!TrashedByAck, TrashedByAck
  <2> QED  BY Zenon, <1>4, <1>5, <2>1 DEF Client!Acked, Acked
<1>7. \A s, p : /\ Client!NextFree(s, p) = NextFree(s, p)
                /\ Client!Evicts(s, p) = Evicts(s, p)
  <2>1. \A s, p : Client!Outranked(s, p) = Outranked(s, p)
    BY Zenon, <1>1 DEF Client!Outranked, Outranked, Client!PriorityOf, PriorityOf
  <2>2. \A S : Client!Min(S) = Min(S)
    BY Zenon DEF Client!Min, Min
  <2>3. \A q : Client!PriorityOf(q) = PriorityOf(q)
    BY Zenon DEF Client!PriorityOf, PriorityOf
  <2>4. \A s, p : Client!LowestPriorityIdx(s, p) = LowestPriorityIdx(s, p)
    BY Zenon, <1>2, <2>1, <2>2, <2>3 DEF Client!LowestPriorityIdx, LowestPriorityIdx
  <2> QED  BY Zenon, <1>1, <1>2, <1>3, <2>4 DEF Client!NextFree, NextFree, Client!Evicts, Evicts
<1>8. \A s, p : Client!AfterNextFree(s, p) = AfterNextFree(s, p)
  BY Zenon, <1>7 DEF Client!AfterNextFree, AfterNextFree
<1>9. \A s, p : Client!Stores(s, p) = Stores(s, p)
  BY Zenon, <1>1, <1>7, <1>8 DEF Client!Stores, Stores, Client!Overflows, Overflows
<1>10. \A s, p : Client!Pushed(s, p) = Pushed(s, p)
  <2>1. \A s, i, p : Client!Filled(s, i, p) = Filled(s, i, p)
    BY Zenon DEF Client!Filled, Filled
  <2> QED  BY Zenon, <1>7, <1>8, <1>9, <2>1 DEF Client!Pushed, Pushed
<1>11. \A s : Client!NextReady(s) = NextReady(s)
  BY Zenon, <1>2, <1>3 DEF Client!NextReady, NextReady
<1>12. \A s : Client!Popped(s) = Popped(s)
  <2>1. \A s, i : /\ Client!SentAwaitingAck(s, i) = SentAwaitingAck(s, i)
                  /\ Client!SentForGood(s, i) = SentForGood(s, i)
                  /\ Client!AwaitsAck(s, i) = AwaitsAck(s, i)
    BY Zenon DEF Client!SentAwaitingAck, SentAwaitingAck, Client!SentForGood, SentForGood,
       Client!AwaitsAck, AwaitsAck
  <2> QED  BY Zenon, <1>1, <1>11, <2>1 DEF Client!Popped, Popped
<1>13. \A s, ms : Client!Ticked(s, ms) = Ticked(s, ms)
  <2>1. \A s, ms : Client!Expired(s, ms) = Expired(s, ms)
    BY Zenon, <1>3 DEF Client!Expired, Expired
  <2>2. \A s, ms : Client!Retried(s, ms) = Retried(s, ms)
    BY Zenon, <2>1 DEF Client!Retried, Retried
  <2>3. \A s, ms : Client!GivenUp(s, ms) = GivenUp(s, ms)
    BY Zenon, <2>1, <2>2 DEF Client!GivenUp, GivenUp
  <2>4. \A S : Client!Cardinality(S) = Cardinality(S)
    BY Zenon DEF Client!Cardinality, Cardinality
  <2> TAKE s, ms
  <2> DEFINE Timer(S) == [i \in S |-> IF s.mState[i] = "WAITING" THEN s.mTimer[i] - ms
                                                              ELSE s.mTimer[i]]
             State(S, R, G) == [i \in S |-> IF i \in R THEN "READY"
                                            ELSE IF i \in G THEN "FREE" ELSE s.mState[i]]
             Trash(S, G) == [i \in S |-> s.mTrash[i] \/ i \in G]
             Result(timer, state, trash, e, r, g) ==
               [s EXCEPT !.mTimer = timer, !.mState = state, !.mTrash = trash,
                         !.mReadyCount = @ + r, !.mWaitingCount = @ - e,
                         !.mCount = @ - g, !.mFailedMessages = @ + g]
  <2>5. Ticked(s, ms) =
          Result(Timer(Slots), State(Slots, Retried(s, ms), GivenUp(s, ms)),
                 Trash(Slots, GivenUp(s, ms)), Cardinality(Expired(s, ms)),
                 Cardinality(Retried(s, ms)), Cardinality(GivenUp(s, ms)))
    BY Zenon DEF Ticked
  <2>6. Client!Ticked(s, ms) =
          Result(Timer(Client!Slots), State(Client!Slots, Client!Retried(s, ms), Client!GivenUp(s, ms)),
                 Trash(Client!Slots, Client!GivenUp(s, ms)), Client!Cardinality(Client!Expired(s, ms)),
                 Client!Cardinality(Client!Retried(s, ms)), Client!Cardinality(Client!GivenUp(s, ms)))
    BY Zenon DEF Client!Ticked
  <2> HIDE DEF Timer, State, Trash, Result
  <2> QED  BY Zenon, <1>1, <2>1, <2>2, <2>3, <2>4, <2>5, <2>6
<1>14. \A u : Client!ToInt(u) = ToInt(u)
  BY Zenon DEF Client!ToInt, ToInt
<1>15. \A retries, timeOut :
         Client!InitialSpool(retries, timeOut) = InitialSpool(retries, timeOut)
  BY Zenon, <1>1 DEF Client!InitialSpool, InitialSpool
<1> QED
  BY Zenon, <1>4, <1>5, <1>6, <1>9, <1>10, <1>11, <1>12, <1>13, <1>14, <1>15

(* And for the server, which needs fewer of them.                          *)
LEMMA ServerOperators ==
  /\ \A s, p : Server!Pushed(s, p) = Pushed(s, p)
  /\ \A s, p : Server!Stores(s, p) = Stores(s, p)
  /\ \A s : Server!Popped(s) = Popped(s)
  /\ \A s : Server!NextReady(s) = NextReady(s)
  /\ \A u : Server!ToInt(u) = ToInt(u)
  /\ \A retries, timeOut :
       Server!InitialSpool(retries, timeOut) = InitialSpool(retries, timeOut)
<1>1. Server!Slots = Slots /\ Server!ENTRY_NONE = ENTRY_NONE
  BY DEF Server!Slots, Slots, Server!ENTRY_NONE, ENTRY_NONE
<1>2. \A S : Server!FirstOf(S) = FirstOf(S)
  <2>1. \A S : Server!Min(S) = Min(S)
    BY Zenon DEF Server!Min, Min
  <2> QED  BY Zenon, <1>1, <2>1 DEF Server!FirstOf, FirstOf
<1>3. \A s, st : Server!InState(s, st) = InState(s, st)
  BY Zenon, <1>1 DEF Server!InState, InState
<1>4. \A s, p : /\ Server!NextFree(s, p) = NextFree(s, p)
                /\ Server!Evicts(s, p) = Evicts(s, p)
  <2>1. \A s, p : Server!Outranked(s, p) = Outranked(s, p)
    BY Zenon, <1>1 DEF Server!Outranked, Outranked, Server!PriorityOf, PriorityOf
  <2>2. \A S : Server!Min(S) = Min(S)
    BY Zenon DEF Server!Min, Min
  <2>3. \A q : Server!PriorityOf(q) = PriorityOf(q)
    BY Zenon DEF Server!PriorityOf, PriorityOf
  <2>4. \A s, p : Server!LowestPriorityIdx(s, p) = LowestPriorityIdx(s, p)
    BY Zenon, <1>2, <2>1, <2>2, <2>3 DEF Server!LowestPriorityIdx, LowestPriorityIdx
  <2> QED  BY Zenon, <1>1, <1>2, <1>3, <2>4 DEF Server!NextFree, NextFree, Server!Evicts, Evicts
<1>5. \A s, p : Server!AfterNextFree(s, p) = AfterNextFree(s, p)
  BY Zenon, <1>4 DEF Server!AfterNextFree, AfterNextFree
<1>6. \A s, p : Server!Stores(s, p) = Stores(s, p)
  BY Zenon, <1>1, <1>4, <1>5 DEF Server!Stores, Stores, Server!Overflows, Overflows
<1>7. \A s, p : Server!Pushed(s, p) = Pushed(s, p)
  <2>1. \A s, i, p : Server!Filled(s, i, p) = Filled(s, i, p)
    BY Zenon DEF Server!Filled, Filled
  <2> QED  BY Zenon, <1>4, <1>5, <1>6, <2>1 DEF Server!Pushed, Pushed
<1>8. \A s : Server!NextReady(s) = NextReady(s)
  BY Zenon, <1>2, <1>3 DEF Server!NextReady, NextReady
<1>9. \A s : Server!Popped(s) = Popped(s)
  <2>1. \A s, i : /\ Server!SentAwaitingAck(s, i) = SentAwaitingAck(s, i)
                  /\ Server!SentForGood(s, i) = SentForGood(s, i)
                  /\ Server!AwaitsAck(s, i) = AwaitsAck(s, i)
    BY Zenon DEF Server!SentAwaitingAck, SentAwaitingAck, Server!SentForGood, SentForGood,
       Server!AwaitsAck, AwaitsAck
  <2> QED  BY Zenon, <1>1, <1>8, <2>1 DEF Server!Popped, Popped
<1>10. \A u : Server!ToInt(u) = ToInt(u)
  BY Zenon DEF Server!ToInt, ToInt
<1>11. \A retries, timeOut :
         Server!InitialSpool(retries, timeOut) = InitialSpool(retries, timeOut)
  BY Zenon, <1>1 DEF Server!InitialSpool, InitialSpool
<1> QED
  BY Zenon, <1>6, <1>7, <1>8, <1>9, <1>10, <1>11

-----------------------------------------------------------------------------
(* The invariant follows a command to the server and its answer back.      *)
(* Only commands travel to the server, and every answer on its way to the  *)
(* client, in a spool, on the line or in a fifo, carries the token of a    *)
(* command that was handled.  It is an Ack or Data, so that the client     *)
(* passes the assertions of tp_service_dispatch; the server stops at one   *)
(* only with a command that fails it.                                      *)

AskedIn(handled, token) == \E q \in Commands : Token[q] = token /\ <<0, q>> \in handled
AnsweredIn(handled, r) ==
  /\ r \in Packets /\ AckFlag[r] /\ TypeOf[r] \in {"Ack", "Data"}
  /\ AskedIn(handled, Token[r])

Asked(token) == AskedIn(sHandled, token)
Answered(r) == AnsweredIn(sHandled, r)

ClientInv ==
  /\ cAt = 0
  /\ cSpool \in [{0} -> SpoolType] /\ Sound(cSpool[0])
  /\ \A j \in InUse(cSpool[0]) : cSpool[0].mPacket[j] \in Commands
  /\ cFifo \in [{0} -> Seq(Packets)]
  /\ \A n \in 1..Len(cFifo[0]) : Answered(cFifo[0][n])
  /\ cPc # "assert"
  /\ cPc = "dispatch" =>
       cPacket \in Packets /\ AckFlag[cPacket] /\ TypeOf[cPacket] \in {"Ack", "Data"}
  /\ \A p : <<0, p>> \in cAcked => p \in Commands /\ Asked(Token[p])

ServerInv ==
  /\ sAt = 0
  /\ sSpool \in [{0} -> SpoolType] /\ Sound(sSpool[0])
  /\ \A j \in InUse(sSpool[0]) : Answered(sSpool[0].mPacket[j])
  /\ sFifo \in [{0} -> Seq(Commands)]
  /\ sPc = "dispatch" => sPacket \in Commands
  /\ sPc = "assert" => sPacket \in Commands /\ Server!Asserts(sPacket)

LineInv ==
  /\ DOMAIN toServer \subseteq Commands
  /\ \A r \in DOMAIN toClient : Answered(r)

LinkInv == ClientInv /\ ServerInv /\ LineInv

(* There is one interface.                                                 *)
LEMMA OneInterface ==
  /\ Client!Ifaces = {0} /\ Server!Ifaces = {0}
  /\ Commands \subseteq Packets /\ \A q \in Commands : ~AckFlag[q]
BY LinkAssumption DEF Client!Ifaces, Server!Ifaces, Client!Requests

(* What was handled stays handled: what is left alone stays as it was.     *)
LEMMA HandledGrows ==
  ASSUME sHandled \subseteq sHandled'
  PROVE  /\ \A r : Answered(r) => Answered(r)'
         /\ \A token : Asked(token) => Asked(token)'
BY DEF Answered, Asked, AnsweredIn, AskedIn

(* Nothing the client's part speaks of changes.                            *)
LEMMA ClientFrame ==
  ASSUME ClientInv, UNCHANGED clientVars, sHandled \subseteq sHandled'
  PROVE  ClientInv'
BY HandledGrows DEF ClientInv, clientVars

(* Nothing the server's part speaks of changes.                            *)
LEMMA ServerFrame ==
  ASSUME ServerInv, UNCHANGED serverVars
  PROVE  ServerInv'
BY DEF ServerInv, serverVars, Answered, Asked, AnsweredIn, AskedIn

(* The line in both directions.                                            *)
LEMMA LineFrame ==
  ASSUME LineInv, UNCHANGED <<toServer, toClient>>, sHandled \subseteq sHandled'
  PROVE  LineInv'
BY HandledGrows DEF LineInv

(* What travels after a frame is put on the line or taken from it.         *)
LEMMA BagDomains ==
  ASSUME NEW bag, NEW frame
  PROVE  /\ DOMAIN (bag (+) One(frame)) = DOMAIN bag \cup {frame}
         /\ DOMAIN (bag (-) One(frame)) \subseteq DOMAIN bag
BY DEF One, SetToBag, (+), (-)

-----------------------------------------------------------------------------
(* Both ends start with nothing.                                           *)
LEMMA LinkInit == Init => LinkInv
<1> SUFFICES ASSUME Init PROVE LinkInv
  OBVIOUS
<1> DEFINE new == InitialSpool(Retries, ToInt(TimeOut))
<1>1. Sound(new) /\ InUse(new) = {} /\ new \in SpoolType
  <2>1. ToInt(TimeOut) \in Int /\ Retries \in Nat
    BY LinkAssumption, ToIntType
  <2>2. WellFormed(new)
    BY <2>1, InitialWellFormed
  <2>3. InUse(new) = {}
    BY DEF InitialSpool, InUse
  <2> QED  BY <2>2, <2>3 DEF Sound, WellFormed
<1>2. cSpool = [i \in {0} |-> new] /\ sSpool = [i \in {0} |-> new]
  BY OneInterface, ClientOperators, ServerOperators DEF Init, Client!Init, Server!Init
<1> HIDE DEF new
<1>3. /\ cAt = 0 /\ cFifo = [i \in {0} |-> <<>>] /\ cPc = "idle" /\ cAcked = {}
      /\ sAt = 0 /\ sFifo = [i \in {0} |-> <<>>] /\ sPc = "idle"
  BY OneInterface DEF Init, Client!Init, Server!Init
<1>4. DOMAIN toServer = {} /\ DOMAIN toClient = {}
  BY DEF Init, EmptyBag, SetToBag
<1> QED
  BY <1>1, <1>2, <1>3, <1>4 DEF LinkInv, ClientInv, ServerInv, LineInv

-----------------------------------------------------------------------------
(* The client                                                              *)

(* The client's spool is one the operations of the spool keep.             *)
LEMMA ClientSettings ==
  ASSUME ClientInv
  PROVE  cSpool[0] \in SpoolType /\ WellFormed(cSpool[0]) /\ Sound(cSpool[0])
BY DEF ClientInv, Sound, WellFormed

(* A spool whose packets stayed where they were or left.                   *)
LEMMA ClientSpoolKept ==
  ASSUME ClientInv, NEW t, Sound(t), Keeps(cSpool[0], t),
         cSpool' = [cSpool EXCEPT ![0] = t]
  PROVE  /\ cSpool' \in [{0} -> SpoolType] /\ Sound(cSpool'[0])
         /\ \A j \in InUse(cSpool'[0]) : cSpool'[0].mPacket[j] \in Commands
<1>1. t \in SpoolType
  BY DEF Sound, WellFormed
<1>2. cSpool'[0] = t /\ cSpool' \in [{0} -> SpoolType]
  BY <1>1 DEF ClientInv
<1> QED
  BY <1>2 DEF ClientInv, Keeps

(* An answer that comes in acknowledges only a command whose token it has. *)
LEMMA ClientParses ==
  ASSUME LinkInv, Client!ParseValid, UNCHANGED serverVars
  PROVE  ClientInv'
<1> DEFINE p == Head(cFifo[0])
           s == cSpool[0]
           m == AckMatch(s, Token[p])
           t == Acked(s, Token[p], AckFlag[p])
<1>1. /\ ClientInv /\ cAt = 0 /\ UNCHANGED sHandled
  BY DEF LinkInv, ClientInv, serverVars
<1>2. /\ cFifo[0] # <<>> /\ p \in Packets
      /\ cFifo' = [cFifo EXCEPT ![0] = Tail(@)] /\ cPacket' = p
      /\ cSpool' = [cSpool EXCEPT ![0] = t]
      /\ cAcked' = IF AckMatches(s, Token[p], AckFlag[p])
                   THEN cAcked \cup {<<0, s.mPacket[m]>>} ELSE cAcked
      /\ cAt' = 0 /\ cPc' = "dispatch"
  BY <1>1, ClientOperators DEF Client!ParseValid
<1>3. Answered(p)
  BY <1>1, <1>2 DEF ClientInv
<1>4. WellFormed(s) /\ Sound(s)
  BY <1>1, ClientSettings
<1>5. Keeps(s, t) /\ Sound(t)
  BY <1>4, AckKeeps, OperationsKeepSound
<1>6. ASSUME AckMatches(s, Token[p], AckFlag[p])
      PROVE  s.mPacket[m] \in Commands /\ Token[s.mPacket[m]] = Token[p]
  <2> DEFINE M == {i \in InState(s, "WAITING") :
                     ~AckFlag[s.mPacket[i]] /\ Token[s.mPacket[i]] = Token[p]}
  <2>1. m # ENTRY_NONE /\ m = FirstOf(M) /\ M \in SUBSET Slots
    BY <1>6 DEF AckMatches, AckMatch, InState
  <2>2. m \in M
    BY <2>1, FirstOfSlots
  <2>3. m \in InUse(s)
    BY <2>2 DEF InState, InUse
  <2> QED  BY <1>1, <2>2, <2>3 DEF ClientInv
<1>7. cFifo' \in [{0} -> Seq(Packets)] /\ \A n \in 1..Len(cFifo'[0]) : Answered(cFifo'[0][n])
  <2>1. cFifo \in [{0} -> Seq(Packets)]
    BY <1>1 DEF ClientInv
  <2>2. cFifo' \in [{0} -> Seq(Packets)] /\ cFifo'[0] = Tail(cFifo[0])
    BY <1>2, <2>1
  <2>3. \A n \in 1..Len(Tail(cFifo[0])) : Answered(Tail(cFifo[0])[n])
    <3>1. \A n \in 1..Len(Tail(cFifo[0])) :
            Tail(cFifo[0])[n] = cFifo[0][n + 1] /\ n + 1 \in 1..Len(cFifo[0])
      BY <1>2, <2>1
    <3> QED  BY <1>1, <3>1 DEF ClientInv
  <2> QED  BY <2>2, <2>3
<1>8. \A q : <<0, q>> \in cAcked' => q \in Commands /\ Asked(Token[q])
  BY <1>1, <1>2, <1>3, <1>6 DEF ClientInv, Answered, AnsweredIn, Asked
<1> HIDE DEF p, s, t, m
<1>9. /\ cSpool' \in [{0} -> SpoolType] /\ Sound(cSpool'[0])
      /\ \A j \in InUse(cSpool'[0]) : cSpool'[0].mPacket[j] \in Commands
  BY <1>1, <1>2, <1>5, ClientSpoolKept DEF s
<1> QED
  BY <1>1, <1>2, <1>3, <1>7, <1>8, <1>9 DEF ClientInv, Answered, Asked, AnsweredIn, AskedIn

(* Every step of the client's tp_service_process that transmits nothing.   *)
LEMMA ClientWorksKeeps ==
  ASSUME LinkInv, ClientWorks
  PROVE  ClientInv'
<1>1. ClientInv /\ UNCHANGED serverVars /\ sHandled' = sHandled
  BY DEF LinkInv, ClientWorks, serverVars
<1>2. CASE Client!ParseValid
  BY <1>1, <1>2, ClientParses
<1>3. CASE Client!StartProcess \/ Client!ParseNothing \/ Client!DespoolNothing
  <2>1. /\ UNCHANGED <<cSpool, cFifo, cAcked>> /\ cAt' = 0
        /\ cPc' # "dispatch" /\ cPc' # "assert"
    BY <1>1, <1>3 DEF Client!StartProcess, Client!ParseNothing, Client!DespoolNothing,
       Client!AfterNoFrame, Client!AfterDespool, Client!NextInterface, Client!history, ClientInv
  <2> QED  BY <1>1, <2>1 DEF ClientInv, Answered, Asked, AnsweredIn, AskedIn
<1>4. ASSUME NEW status \in Client!HandlerStatus, Client!Dispatch(status)
      PROVE  ClientInv'
  <2>1. ~Client!Responds(cPacket, status)
    BY <1>1, <1>4 DEF Client!Dispatch, Client!Responds, ClientInv
  <2>2. /\ UNCHANGED <<cSpool, cFifo, cAcked>> /\ cAt' = 0
        /\ cPc' # "dispatch" /\ cPc' # "assert"
    BY <1>4, <2>1 DEF Client!Dispatch
  <2> QED  BY <1>1, <2>2 DEF ClientInv, Answered, Asked, AnsweredIn, AskedIn
<1>5. ~Client!DispatchAsserts
  <2>1. cPc = "dispatch" => ~Client!Asserts(cPacket)
    BY <1>1, LinkAssumption DEF ClientInv, Client!Asserts
  <2> QED  BY <2>1 DEF Client!DispatchAsserts
<1> QED
  BY <1>2, <1>3, <1>4, <1>5 DEF ClientWorks

(* The client transmits commands, the only packets in its spool.           *)
LEMMA ClientTransmitsKeeps ==
  ASSUME LinkInv, ClientTransmits
  PROVE  ClientInv' /\ LineInv'
<1> DEFINE s == cSpool[0]
<1>1. /\ ClientInv /\ LineInv /\ cAt = 0 /\ sHandled' = sHandled
      /\ toClient' = toClient /\ WellFormed(s) /\ Sound(s)
  BY ClientSettings DEF LinkInv, ClientInv, ClientTransmits, serverVars
<1>2. /\ NextReady(s) # ENTRY_NONE /\ cPc = "despool"
      /\ cSpool' = [cSpool EXCEPT ![0] = Popped(s)]
      /\ UNCHANGED <<cFifo, cAcked>> /\ cAt' = 0
      /\ cPc' # "dispatch" /\ cPc' # "assert"
      /\ toServer' = toServer (+) One(s.mPacket[NextReady(s)])
  <2>1. Client!Transmits(0) => NextReady(s) # ENTRY_NONE
    BY ClientOperators DEF Client!Transmits, Client!ENTRY_NONE, ENTRY_NONE
  <2>2. Client!Popping(0) = s.mPacket[NextReady(s)]
    BY ClientOperators DEF Client!Popping
  <2>3. Client!DespoolPacket /\ toServer' = toServer (+) One(Client!Popping(0))
    BY DEF ClientTransmits
  <2>4. /\ Client!Transmits(0) /\ cPc = "despool"
        /\ cSpool' = [cSpool EXCEPT ![0] = Popped(s)] /\ UNCHANGED <<cFifo, cAcked>>
    BY <1>1, <2>3, ClientOperators DEF Client!DespoolPacket
  <2>5. cAt' = 0 /\ cPc' # "dispatch" /\ cPc' # "assert"
    BY <1>1, <2>3, <2>4 DEF Client!DespoolPacket, Client!AfterDespool, Client!NextInterface
  <2> QED  BY <2>1, <2>2, <2>3, <2>4, <2>5
<1>3. Keeps(s, Popped(s)) /\ NextReady(s) \in InUse(s) /\ Sound(Popped(s))
  BY <1>1, <1>2, PopKeeps, OperationsKeepSound
<1>4. s.mPacket[NextReady(s)] \in Commands
  BY <1>1, <1>3 DEF ClientInv
<1>5. LineInv'
  <2>1. DOMAIN toServer' = DOMAIN toServer \cup {s.mPacket[NextReady(s)]}
    BY <1>2, BagDomains
  <2> QED  BY <1>1, <1>4, <2>1 DEF LineInv, Answered, Asked, AnsweredIn, AskedIn
<1>6. /\ cSpool' \in [{0} -> SpoolType] /\ Sound(cSpool'[0])
      /\ \A j \in InUse(cSpool'[0]) : cSpool'[0].mPacket[j] \in Commands
  BY <1>1, <1>2, <1>3, ClientSpoolKept
<1>7. ClientInv'
  BY <1>1, <1>2, <1>6 DEF ClientInv, Answered, Asked, AnsweredIn, AskedIn
<1> QED
  BY <1>5, <1>7

(* The application adds a command, or time passes.                         *)
LEMMA ClientCallsKeep ==
  ASSUME LinkInv, SendCommand \/ TimePasses
  PROVE  ClientInv'
<1> DEFINE s == cSpool[0]
<1>1. /\ ClientInv /\ sHandled' = sHandled /\ WellFormed(s) /\ Sound(s)
  BY ClientSettings DEF LinkInv, SendCommand, TimePasses, serverVars
<1>2. UNCHANGED <<cFifo, cPc, cAt, cPacket, cAcked>>
  BY DEF SendCommand, TimePasses, Client!Send, Client!Tick, Client!process, Client!history
<1>3. SUFFICES /\ cSpool' \in [{0} -> SpoolType] /\ Sound(cSpool'[0])
               /\ \A j \in InUse(cSpool'[0]) : cSpool'[0].mPacket[j] \in Commands
  BY <1>1, <1>2 DEF ClientInv, Answered, Asked, AnsweredIn, AskedIn
<1>4. CASE SendCommand
  <2>1. PICK p \in Commands : cSpool' = [cSpool EXCEPT ![0] = Pushed(s, p)]
    BY <1>4, ClientOperators DEF SendCommand, Client!Send
  <2>2. p \in Packets
    BY OneInterface
  <2>3. Sound(Pushed(s, p))
    BY <1>1, <2>2, OperationsKeepSound
  <2>4. cSpool'[0] = Pushed(s, p) /\ cSpool' \in [{0} -> SpoolType]
    BY <1>1, <2>1, <2>3 DEF ClientInv, Sound, WellFormed
  <2>5. \A j \in InUse(Pushed(s, p)) : Pushed(s, p).mPacket[j] \in Commands
    BY <1>1, <2>2, PushKeeps DEF ClientInv
  <2> QED  BY <2>3, <2>4, <2>5
<1>5. CASE TimePasses
  <2>1. PICK ms \in TickSizes : cSpool' = [i \in {0} |-> Ticked(cSpool[i], ToInt(ms))]
    BY <1>5, OneInterface, ClientOperators DEF TimePasses, Client!Tick
  <2>2. ToInt(ms) \in Int
    BY LinkAssumption, ToIntType
  <2>3. Keeps(s, Ticked(s, ToInt(ms))) /\ Sound(Ticked(s, ToInt(ms)))
    BY <1>1, <2>2, TickKeeps, OperationsKeepSound
  <2>4. cSpool' = [cSpool EXCEPT ![0] = Ticked(s, ToInt(ms))]
    BY <1>1, <2>1 DEF ClientInv
  <2> QED  BY <1>1, <2>3, <2>4, ClientSpoolKept
<1> QED
  BY <1>4, <1>5

-----------------------------------------------------------------------------
(* The server                                                              *)

(* The server's spool is one the operations of the spool keep.             *)
LEMMA ServerSettings ==
  ASSUME ServerInv
  PROVE  sSpool[0] \in SpoolType /\ WellFormed(sSpool[0]) /\ Sound(sSpool[0])
BY DEF ServerInv, Sound, WellFormed

(* A spool that holds only answers to what was handled, once it is t.      *)
LEMMA ServerSpoolKept ==
  ASSUME ServerInv, NEW t, Sound(t), sSpool' = [sSpool EXCEPT ![0] = t],
         \A j \in InUse(t) : AnsweredIn(sHandled', t.mPacket[j])
  PROVE  /\ sSpool' \in [{0} -> SpoolType] /\ Sound(sSpool'[0])
         /\ \A j \in InUse(sSpool'[0]) : AnsweredIn(sHandled', sSpool'[0].mPacket[j])
<1>1. t \in SpoolType
  BY DEF Sound, WellFormed
<1>2. sSpool'[0] = t /\ sSpool' \in [{0} -> SpoolType]
  BY <1>1 DEF ServerInv
<1> QED
  BY <1>2

(* A command is no acknowledgement, so parsing it leaves the spool alone.  *)
LEMMA ServerParses ==
  ASSUME LinkInv, Server!ParseValid
  PROVE  ServerInv' /\ sHandled' = sHandled
<1> DEFINE p == Head(sFifo[0])
<1>1. ServerInv /\ sAt = 0 /\ sFifo \in [{0} -> Seq(Commands)]
  BY DEF LinkInv, ServerInv
<1>2. /\ sFifo[0] # <<>> /\ sFifo' = [sFifo EXCEPT ![0] = Tail(@)] /\ sPacket' = p
      /\ sSpool' = [sSpool EXCEPT ![0] = Server!Acked(@, Token[p], AckFlag[p])]
      /\ sAt' = 0 /\ sPc' = "dispatch" /\ UNCHANGED sHandled
  BY <1>1 DEF Server!ParseValid
<1>3. p \in Commands /\ AckFlag[p] = FALSE
  <2>1. p \in Commands
    BY <1>1, <1>2
  <2>2. AckFlag[p] \in BOOLEAN
    BY <2>1, OneInterface, PacketsAssumption
  <2> QED  BY <2>1, <2>2, OneInterface
<1>4. sSpool' = sSpool
  <2>1. Server!Acked(sSpool[0], Token[p], AckFlag[p]) = sSpool[0]
    BY <1>3 DEF Server!Acked, Server!AckMatches
  <2> QED  BY <1>1, <1>2, <2>1 DEF ServerInv
<1>5. sFifo' \in [{0} -> Seq(Commands)]
  BY <1>1, <1>2
<1> HIDE DEF p
<1> QED
  BY <1>1, <1>2, <1>3, <1>4, <1>5 DEF ServerInv, Answered, Asked, AnsweredIn, AskedIn

(* The handler's status decides whether the command counts as handled; it  *)
(* is answered only if it does.                                            *)
LEMMA ServerDispatches ==
  ASSUME LinkInv, NEW status \in Server!HandlerStatus, Server!Dispatch(status)
  PROVE  ServerInv' /\ sHandled \subseteq sHandled'
<1> DEFINE q == sPacket
           s == sSpool[0]
           r == Server!Answer(q, Server!ResponseType(q))
<1>1. /\ ServerInv /\ sAt = 0 /\ sPc = "dispatch" /\ q \in Commands
      /\ WellFormed(s) /\ Sound(s)
  BY ServerSettings DEF LinkInv, ServerInv, Server!Dispatch
<1>2. /\ sHandled' = IF status = "PACKET_HANDLED" THEN sHandled \cup {<<0, q>>} ELSE sHandled
      /\ UNCHANGED sFifo /\ sAt' = 0 /\ sPc' # "dispatch" /\ sPc' # "assert"
      /\ IF Server!Responds(q, status)
         THEN sSpool' = [sSpool EXCEPT ![0] = Pushed(s, r)]
         ELSE UNCHANGED sSpool
  <2>1. Server!ResponseInterface(sAt) = 0
    BY <1>1 DEF Server!ResponseInterface
  <2> QED  BY <1>1, <2>1, ServerOperators DEF Server!Dispatch
<1>3. sHandled \subseteq sHandled'
  BY <1>2
<1>4. \A x : Answered(x) => AnsweredIn(sHandled', x)
  BY <1>3, HandledGrows DEF Answered
<1>5. CASE ~Server!Responds(q, status)
  BY <1>1, <1>2, <1>3, <1>4, <1>5 DEF ServerInv, Answered
<1>6. CASE Server!Responds(q, status)
  <2>1. <<0, q>> \in sHandled'
    BY <1>2, <1>6 DEF Server!Responds
  <2>2. /\ r \in Packets /\ AckFlag[r] /\ Token[r] = Token[q]
        /\ TypeOf[r] \in {"Ack", "Data"}
    <3>1. Server!ResponseType(q) \in {"Ack", "Data"}
      BY DEF Server!ResponseType
    <3>2. \E x \in Packets : Server!IsAnswer(x, q, Server!ResponseType(q))
      BY <1>1, <3>1, LinkAssumption
    <3>3. r \in Packets /\ Server!IsAnswer(r, q, Server!ResponseType(q))
      BY <3>2 DEF Server!Answer
    <3> QED  BY <3>1, <3>3 DEF Server!IsAnswer
  <2>3. AnsweredIn(sHandled', r)
    BY <1>1, <2>1, <2>2 DEF Answered, Asked, AnsweredIn, AskedIn
  <2> HIDE DEF r, q, s
  <2>4. Sound(Pushed(s, r))
    BY <1>1, <2>2, OperationsKeepSound
  <2>5. \A j \in InUse(s) : AnsweredIn(sHandled', s.mPacket[j])
    BY <1>1, <1>4 DEF ServerInv, s
  <2>6. \A j \in InUse(Pushed(s, r)) : AnsweredIn(sHandled', Pushed(s, r).mPacket[j])
    <3>1. CASE ~Stores(s, r)
      BY <1>1, <2>2, <2>5, <3>1, PushKeeps
    <3>2. CASE Stores(s, r)
      <4> DEFINE i == NextFree(s, r)
                 t == Pushed(s, r)
      <4>1. /\ t.mPacket[i] = r /\ InUse(t) \subseteq InUse(s) \cup {i}
            /\ \A j \in InUse(t) \ {i} : t.mPacket[j] = s.mPacket[j]
        BY <1>1, <2>2, <3>2, PushKeeps
      <4> HIDE DEF i, t
      <4>2. \A j \in InUse(t) : AnsweredIn(sHandled', t.mPacket[j])
        <5> TAKE j \in InUse(t)
        <5>1. CASE j = i
          BY <2>3, <4>1, <5>1 DEF Answered, Asked, AnsweredIn, AskedIn
        <5>2. CASE j # i
          <6>1. j \in InUse(s) /\ t.mPacket[j] = s.mPacket[j]
            BY <4>1, <5>2
          <6> QED  BY <2>5, <6>1 DEF Answered, Asked, AnsweredIn, AskedIn
        <5> QED  BY <5>1, <5>2
      <4> QED  BY <4>2 DEF t
    <3> QED  BY <3>1, <3>2
  <2>7. /\ sSpool' \in [{0} -> SpoolType] /\ Sound(sSpool'[0])
        /\ \A j \in InUse(sSpool'[0]) : AnsweredIn(sHandled', sSpool'[0].mPacket[j])
    BY <1>1, <1>2, <1>6, <2>4, <2>6, ServerSpoolKept
  <2> QED  BY <1>1, <1>2, <1>3, <2>7 DEF ServerInv, Answered, Asked, AnsweredIn, AskedIn
<1> QED
  BY <1>3, <1>5, <1>6

(* Every step of the server's tp_service_process that transmits nothing.   *)
LEMMA ServerWorksKeeps ==
  ASSUME LinkInv, ServerWorks
  PROVE  ServerInv' /\ sHandled \subseteq sHandled'
<1>1. CASE Server!ParseValid
  BY <1>1, ServerParses
<1>2. CASE \E status \in Server!HandlerStatus : Server!Dispatch(status)
  BY <1>2, ServerDispatches
<1>3. CASE Server!StartProcess \/ Server!ParseNothing \/ Server!DespoolNothing
  <2>1. ServerInv
    BY DEF LinkInv
  <2>2. /\ UNCHANGED <<sSpool, sFifo, sHandled>> /\ sAt' = 0
        /\ sPc' # "dispatch" /\ sPc' # "assert"
    BY <1>3, <2>1 DEF Server!StartProcess, Server!ParseNothing, Server!DespoolNothing,
       Server!AfterNoFrame, Server!AfterDespool, Server!NextInterface, Server!history, ServerInv
  <2> QED  BY <2>1, <2>2 DEF ServerInv, Answered, Asked, AnsweredIn, AskedIn
<1>4. CASE Server!DispatchAsserts
  <2>1. /\ ServerInv /\ sPc = "dispatch" /\ Server!Asserts(sPacket) /\ sPc' = "assert"
        /\ UNCHANGED <<sSpool, sFifo, sAt, sPacket, sHandled>>
    BY <1>4 DEF LinkInv, Server!DispatchAsserts, Server!history
  <2>2. sPacket \in Commands /\ sPacket' = sPacket
    BY <2>1 DEF ServerInv
  <2>3. (sPc = "assert" => sPacket \in Commands /\ Server!Asserts(sPacket))'
    BY <2>1, <2>2 DEF Server!Asserts
  <2> QED  BY <2>1, <2>3 DEF ServerInv, Answered, Asked, AnsweredIn, AskedIn
<1> QED
  BY <1>1, <1>2, <1>3, <1>4 DEF ServerWorks

(* The server transmits answers, the only packets in its spool.            *)
LEMMA ServerTransmitsKeeps ==
  ASSUME LinkInv, ServerTransmits
  PROVE  ServerInv' /\ LineInv' /\ sHandled' = sHandled
<1> DEFINE s == sSpool[0]
           r == s.mPacket[NextReady(s)]
<1>1. ServerInv /\ LineInv /\ sAt = 0 /\ WellFormed(s) /\ Sound(s)
  BY ServerSettings DEF LinkInv, ServerInv
<1>2. /\ NextReady(s) # ENTRY_NONE /\ sSpool' = [sSpool EXCEPT ![0] = Popped(s)]
      /\ UNCHANGED <<sFifo, sHandled, toServer>> /\ sAt' = 0
      /\ sPc' # "dispatch" /\ sPc' # "assert"
      /\ toClient' = toClient (+) One(r)
  <2>1. Server!Transmits(0) => NextReady(s) # ENTRY_NONE
    BY ServerOperators DEF Server!Transmits, Server!ENTRY_NONE, ENTRY_NONE
  <2>2. Server!Popping(0) = r
    BY ServerOperators DEF Server!Popping
  <2>3. /\ Server!DespoolPacket /\ toClient' = toClient (+) One(Server!Popping(0))
        /\ UNCHANGED toServer
    BY DEF ServerTransmits
  <2>4. /\ Server!Transmits(0) /\ sPc = "despool" /\ UNCHANGED <<sFifo, sHandled>>
        /\ sSpool' = [sSpool EXCEPT ![0] = Popped(s)]
    BY <1>1, <2>3, ServerOperators DEF Server!DespoolPacket
  <2>5. sAt' = 0 /\ sPc' # "dispatch" /\ sPc' # "assert"
    BY <1>1, <2>3, <2>4 DEF Server!DespoolPacket, Server!AfterDespool, Server!NextInterface
  <2> QED  BY <2>1, <2>2, <2>3, <2>4, <2>5
<1>3. Keeps(s, Popped(s)) /\ NextReady(s) \in InUse(s) /\ Sound(Popped(s))
  BY <1>1, <1>2, PopKeeps, OperationsKeepSound
<1>4. Answered(r)
  BY <1>1, <1>3 DEF ServerInv
<1>5. LineInv'
  <2>1. DOMAIN toClient' = DOMAIN toClient \cup {r}
    BY <1>2, BagDomains
  <2> HIDE DEF r
  <2> QED  BY <1>1, <1>2, <1>4, <2>1 DEF LineInv, Answered, Asked, AnsweredIn, AskedIn
<1>6. \A j \in InUse(Popped(s)) : AnsweredIn(sHandled', Popped(s).mPacket[j])
  <2>1. \A j \in InUse(Popped(s)) : Answered(Popped(s).mPacket[j])
    BY <1>1, <1>3 DEF ServerInv, Keeps
  <2> QED  BY <1>2, <2>1 DEF Answered, Asked, AnsweredIn, AskedIn
<1>7. /\ sSpool' \in [{0} -> SpoolType] /\ Sound(sSpool'[0])
      /\ \A j \in InUse(sSpool'[0]) : AnsweredIn(sHandled', sSpool'[0].mPacket[j])
  BY <1>1, <1>2, <1>3, <1>6, ServerSpoolKept
<1>8. ServerInv'
  BY <1>1, <1>2, <1>7 DEF ServerInv, Answered, Asked, AnsweredIn, AskedIn
<1> QED
  BY <1>2, <1>5, <1>8

-----------------------------------------------------------------------------
(* The line                                                                *)

(* A frame that arrives was on the line.                                   *)
LEMMA ArrivalKeeps ==
  ASSUME LinkInv, Arrival
  PROVE  ClientInv' /\ ServerInv' /\ LineInv' /\ sHandled' = sHandled
<1>1. ClientInv /\ ServerInv /\ LineInv
  BY DEF LinkInv
<1>2. ASSUME NEW frame \in Packets, ReachesServer(frame)
      PROVE  ClientInv' /\ ServerInv' /\ LineInv' /\ sHandled' = sHandled
  <2>1. /\ frame \in DOMAIN toServer /\ sFifo' = [sFifo EXCEPT ![0] = Append(@, frame)]
        /\ UNCHANGED <<sSpool, sAt, sPc, sPacket, sHandled, clientVars, toClient>>
        /\ toServer' = toServer (-) One(frame)
    BY <1>2 DEF ReachesServer, Server!Feed, Server!process, Server!history, BagIn, BagToSet
  <2>2. sFifo' \in [{0} -> Seq(Commands)]
    <3>1. sFifo \in [{0} -> Seq(Commands)] /\ frame \in Commands
      BY <1>1, <2>1 DEF ServerInv, LineInv
    <3> QED  BY <2>1, <3>1
  <2>3. ServerInv'
    BY <1>1, <2>1, <2>2 DEF ServerInv, Answered, Asked, AnsweredIn, AskedIn
  <2>4. LineInv'
    BY <1>1, <2>1, BagDomains DEF LineInv, Answered, Asked, AnsweredIn, AskedIn
  <2> QED  BY <1>1, <2>1, <2>3, <2>4, ClientFrame
<1>3. ASSUME NEW frame \in Packets, ReachesClient(frame)
      PROVE  ClientInv' /\ ServerInv' /\ LineInv' /\ sHandled' = sHandled
  <2>1. /\ frame \in DOMAIN toClient /\ cFifo' = [cFifo EXCEPT ![0] = Append(@, frame)]
        /\ UNCHANGED <<cSpool, cAt, cPc, cPacket, cAcked, serverVars, toServer>>
        /\ toClient' = toClient (-) One(frame)
    BY <1>3 DEF ReachesClient, Client!Feed, Client!process, Client!history, BagIn, BagToSet
  <2>2. sHandled' = sHandled
    BY <2>1 DEF serverVars
  <2>3. Answered(frame)
    BY <1>1, <2>1 DEF LineInv
  <2>4. /\ cFifo' \in [{0} -> Seq(Packets)]
        /\ \A n \in 1..Len(cFifo'[0]) : Answered(cFifo'[0][n])
    <3>1. cFifo \in [{0} -> Seq(Packets)]
      BY <1>1 DEF ClientInv
    <3>2. cFifo' \in [{0} -> Seq(Packets)] /\ cFifo'[0] = Append(cFifo[0], frame)
      BY <2>1, <3>1
    <3>3. \A n \in 1..Len(Append(cFifo[0], frame)) :
            \/ n \in 1..Len(cFifo[0]) /\ Append(cFifo[0], frame)[n] = cFifo[0][n]
            \/ Append(cFifo[0], frame)[n] = frame
      BY <3>1
    <3>4. \A n \in 1..Len(cFifo[0]) : Answered(cFifo[0][n])
      BY <1>1 DEF ClientInv
    <3>5. \A n \in 1..Len(Append(cFifo[0], frame)) : Answered(Append(cFifo[0], frame)[n])
      <4> TAKE n \in 1..Len(Append(cFifo[0], frame))
      <4> QED  BY <2>3, <3>3, <3>4
    <3> QED  BY <3>2, <3>5
  <2>5. ClientInv'
    BY <1>1, <2>1, <2>2, <2>4 DEF ClientInv, Answered, Asked, AnsweredIn, AskedIn
  <2>6. LineInv'
    BY <1>1, <2>1, <2>2, BagDomains DEF LineInv, Answered, Asked, AnsweredIn, AskedIn
  <2> QED  BY <1>1, <2>1, <2>2, <2>5, <2>6, ServerFrame
<1> QED
  BY <1>2, <1>3 DEF Arrival

(* A lost frame leaves the others on the line.                             *)
LEMMA LoseKeeps ==
  ASSUME LinkInv, Lose
  PROVE  LineInv'
<1>1. LineInv /\ UNCHANGED sHandled
  BY DEF LinkInv, Lose, serverVars
<1>2. DOMAIN toServer' \subseteq DOMAIN toServer /\ DOMAIN toClient' \subseteq DOMAIN toClient
  BY BagDomains DEF Lose
<1> QED
  BY <1>1, <1>2 DEF LineInv, Answered, Asked, AnsweredIn, AskedIn

-----------------------------------------------------------------------------
(* Every step keeps the invariant.                                         *)
LEMMA LinkStep == LinkInv /\ [Next]_vars => LinkInv'
<1> SUFFICES ASSUME LinkInv, [Next]_vars PROVE LinkInv'
  OBVIOUS
<1>1. ClientInv /\ ServerInv /\ LineInv
  BY DEF LinkInv
<1>2. CASE ClientWorks
  BY <1>1, <1>2, ClientWorksKeeps, ServerFrame, LineFrame DEF LinkInv, ClientWorks, serverVars
<1>3. CASE ServerWorks
  BY <1>1, <1>3, ServerWorksKeeps, ClientFrame, LineFrame DEF LinkInv, ServerWorks
<1>4. CASE ClientTransmits
  BY <1>1, <1>4, ClientTransmitsKeeps, ServerFrame DEF LinkInv, ClientTransmits
<1>5. CASE ServerTransmits
  BY <1>1, <1>5, ServerTransmitsKeeps, ClientFrame DEF LinkInv, ServerTransmits
<1>6. CASE Arrival
  BY <1>6, ArrivalKeeps DEF LinkInv
<1>7. CASE SendCommand \/ TimePasses
  BY <1>1, <1>7, ClientCallsKeep, ServerFrame, LineFrame
     DEF LinkInv, SendCommand, TimePasses, serverVars
<1>8. CASE Lose
  BY <1>1, <1>8, LoseKeeps, ClientFrame, ServerFrame DEF LinkInv, Lose, serverVars
<1>9. CASE UNCHANGED vars
  BY <1>1, <1>9, ClientFrame, ServerFrame, LineFrame DEF LinkInv, vars, serverVars
<1> QED
  BY <1>2, <1>3, <1>4, <1>5, <1>6, <1>7, <1>8, <1>9 DEF Next, Works

(* The invariant holds throughout.                                         *)
LEMMA LinkInvCorrect == Spec => []LinkInv
BY LinkInit, LinkStep, PTL DEF Spec

AckedTokenWasHandled ==
  \A p : <<0, p>> \in cAcked => p \in Commands /\ Asked(Token[p])

(* Without any assumption on the tokens, an acknowledgement means that the *)
(* server handled some command with the token of the acknowledged one: the *)
(* spool compares tokens (poly_spool_ack), and nothing else.               *)
THEOREM AckedTokenCorrect == Spec => []AckedTokenWasHandled
<1>1. LinkInv => AckedTokenWasHandled
  BY DEF LinkInv, ClientInv, AckedTokenWasHandled
<1> QED
  BY <1>1, LinkInvCorrect, PTL

(* A packet the client's spool released on an acknowledgement was handled  *)
(* by the server, if no two commands have the same random token, whatever  *)
(* the line loses, duplicates by retries or delivers out of order.         *)
THEOREM AckedCorrect ==
  ASSUME \A p, q \in Commands : Token[p] = Token[q] => p = q
  PROVE  Spec => []AckedWasHandled
<1>1. LinkInv => AckedWasHandled
  BY DEF LinkInv, ClientInv, AckedWasHandled, Asked, AskedIn
<1> QED
  BY <1>1, LinkInvCorrect, PTL

AssertsOnlyAt ==
  cPc # "assert" /\ (sPc = "assert" => sPacket \in Commands /\ Server!Asserts(sPacket))

(* The client never comes to an assertion of tp_service_dispatch, whatever *)
(* it is answered; the server comes to one only with a command that is a   *)
(* struct, or a Ping with the hash of another protocol version.            *)
THEOREM AssertionCorrect == Spec => []AssertsOnlyAt
<1>1. LinkInv => AssertsOnlyAt
  BY DEF LinkInv, ClientInv, ServerInv, AssertsOnlyAt
<1> QED
  BY <1>1, LinkInvCorrect, PTL

-----------------------------------------------------------------------------
(* Types.  What the invariant does not speak of: the settings, which never *)
(* change, the histories, and the numbers of the frames on the line.       *)

ClientTypes ==
  /\ cTx \in [{0} -> BOOLEAN] /\ cAuto \in BOOLEAN
  /\ cPc \in {"idle", "parse", "dispatch", "despool"}
  /\ cPacket \in Packets \cup {NoPacket}
  /\ cUnsent \subseteq Commands /\ cFed = 0
  /\ cHandled \subseteq {0} \X Packets /\ cTransmitted \subseteq {0} \X Packets
  /\ cAcked \subseteq {0} \X Packets /\ cLost \subseteq {0} \X Packets

ServerTypes ==
  /\ sTx \in [{0} -> BOOLEAN] /\ sAuto \in BOOLEAN
  /\ sPc \in {"idle", "parse", "dispatch", "despool", "assert"}
  /\ sPacket \in Packets \cup {NoPacket}
  /\ sUnsent = {} /\ sFed = 0
  /\ sHandled \subseteq {0} \X Packets /\ sTransmitted \subseteq {0} \X Packets
  /\ sAcked \subseteq {0} \X Packets /\ sLost \subseteq {0} \X Packets

LineTypes == IsABag(toServer) /\ IsABag(toClient) /\ lossless \in BOOLEAN

(* A bag stays one when a frame is put in or taken out.                    *)
LEMMA BagsKept ==
  ASSUME NEW bag, IsABag(bag), NEW frame
  PROVE  IsABag(bag (+) One(frame)) /\ IsABag(bag (-) One(frame))
<1> DEFINE one == One(frame)
           less == [e \in DOMAIN bag |-> IF e \in DOMAIN one THEN bag[e] - one[e] ELSE bag[e]]
<1>1. bag \in [DOMAIN bag -> {n \in Nat : n > 0}]
  BY DEF IsABag
<1>2. one = [e \in {frame} |-> 1]
  BY DEF One, SetToBag
<1>3. IsABag(bag (+) one)
  <2> DEFINE copies(e) == (IF e \in DOMAIN bag THEN bag[e] ELSE 0)
                            + (IF e \in DOMAIN one THEN one[e] ELSE 0)
  <2>1. bag (+) one = [e \in DOMAIN bag \cup DOMAIN one |-> copies(e)]
    BY Zenon DEF (+)
  <2>2. \A e \in DOMAIN bag \cup DOMAIN one : copies(e) \in {n \in Nat : n > 0}
    BY <1>1, <1>2
  <2> HIDE DEF copies, one
  <2> DEFINE sum == [e \in DOMAIN bag \cup DOMAIN one |-> copies(e)]
  <2>3. sum \in [DOMAIN sum -> {n \in Nat : n > 0}]
    BY <2>2
  <2> QED  BY Zenon, <2>1, <2>3 DEF IsABag
<1>4. IsABag(bag (-) one)
  <2>1. less \in [DOMAIN bag -> Int]
    BY <1>1, <1>2
  <2> HIDE DEF less
  <2> DEFINE rest == [e \in {d \in DOMAIN less : less[d] > 0} |-> less[e]]
  <2>2. bag (-) one = rest
    BY Zenon DEF (-), less
  <2>3. rest \in [DOMAIN rest -> {n \in Nat : n > 0}]
    BY <2>1
  <2> QED  BY Zenon, <2>2, <2>3 DEF IsABag
<1> QED
  BY Zenon, <1>3, <1>4 DEF one

(* Nothing has happened yet, and the line is empty.                        *)
LEMMA LinkTypesInit == Init => ClientTypes /\ ServerTypes /\ LineTypes
<1> SUFFICES ASSUME Init PROVE ClientTypes /\ ServerTypes /\ LineTypes
  OBVIOUS
<1>1. ClientTypes
  BY OneInterface DEF Init, Client!Init, ClientTypes
<1>2. ServerTypes
  BY OneInterface DEF Init, Server!Init, ServerTypes
<1>3. LineTypes
  BY DEF Init, LineTypes, EmptyBag, SetToBag, IsABag
<1> QED
  BY <1>1, <1>2, <1>3

(* What the client transmits and what it releases are packets.             *)
LEMMA ClientTypesStep ==
  ASSUME LinkInv, LinkInv', ClientTypes, [Next]_vars
  PROVE  ClientTypes'
<1>1. /\ ClientInv /\ cAt = 0 /\ Commands \subseteq Packets /\ Client!Ifaces = {0}
      /\ cFifo \in [{0} -> Seq(Packets)]
  BY OneInterface DEF LinkInv, ClientInv
<1>2. CASE UNCHANGED clientVars
  BY <1>2 DEF ClientTypes, clientVars
<1>3. CASE Client!ParseValid
  <2>1. /\ cPacket' \in Packets /\ cPc' = "dispatch"
        /\ UNCHANGED <<cTx, cAuto, cUnsent, cFed, cHandled, cTransmitted, cLost>>
    BY <1>3 DEF Client!ParseValid, Client!settings
  <2>2. \A p : <<0, p>> \in cAcked' => p \in Commands
    BY DEF LinkInv, ClientInv
  <2>3. \A a \in cAcked' : a \in cAcked \/ \E p : a = <<0, p>>
    BY <1>1, <1>3 DEF Client!ParseValid
  <2>4. cAcked' \subseteq {0} \X Packets
    BY <1>1, <2>2, <2>3 DEF ClientTypes
  <2> QED  BY <2>1, <2>4 DEF ClientTypes
<1>4. CASE Client!StartProcess \/ Client!ParseNothing \/ Client!DespoolNothing
  <2>1. /\ UNCHANGED <<cTx, cAuto, cUnsent, cFed, cHandled, cTransmitted, cAcked, cLost>>
        /\ cPc' \in {cPc, "idle", "parse", "despool"} /\ cPacket' \in {cPacket, NoPacket}
    BY <1>4 DEF Client!StartProcess, Client!ParseNothing, Client!DespoolNothing,
       Client!AfterNoFrame, Client!AfterDespool, Client!NextInterface, Client!history,
       Client!settings
  <2> QED  BY <2>1 DEF ClientTypes
<1>5. ASSUME NEW status \in Client!HandlerStatus, Client!Dispatch(status)
      PROVE  ClientTypes'
  <2>1. cPacket \in Packets /\ AckFlag[cPacket]
    BY <1>1, <1>5 DEF Client!Dispatch, ClientInv
  <2>2. /\ cPc' = "despool" /\ cHandled' \subseteq cHandled \cup {<<0, cPacket>>}
        /\ UNCHANGED <<cTx, cAuto, cPacket, cUnsent, cFed, cTransmitted, cAcked, cLost>>
    BY <1>1, <1>5, <2>1 DEF Client!Dispatch, Client!Responds, Client!settings
  <2> QED  BY <2>1, <2>2 DEF ClientTypes
<1>6. CASE ClientTransmits
  <2>1. cTransmitted' = cTransmitted \cup {<<0, Client!Popping(0)>>}
    BY <1>1, <1>6 DEF ClientTransmits, Client!DespoolPacket
  <2>2. /\ cPc' \in {cPc, "idle"}
        /\ UNCHANGED <<cTx, cAuto, cPacket, cUnsent, cFed, cHandled, cAcked, cLost>>
    BY <1>6 DEF ClientTransmits, Client!DespoolPacket, Client!AfterDespool,
       Client!NextInterface, Client!settings
  <2>3. Client!Popping(0) \in Packets
    <3> DEFINE s == cSpool[0]
    <3>1. NextReady(s) # ENTRY_NONE
      BY <1>1, <1>6, ClientOperators
         DEF ClientTransmits, Client!DespoolPacket, Client!Transmits, Client!ENTRY_NONE, ENTRY_NONE
    <3>2. WellFormed(s)
      BY <1>1, ClientSettings
    <3>3. NextReady(s) \in InUse(s)
      BY <3>1, <3>2, PopKeeps
    <3>4. s.mPacket[NextReady(s)] \in Commands
      BY <1>1, <3>3 DEF ClientInv
    <3> QED  BY <1>1, <3>4, ClientOperators DEF Client!Popping
  <2> QED  BY <2>1, <2>2, <2>3 DEF ClientTypes
<1>7. CASE SendCommand \/ TimePasses
  <2>1. /\ cUnsent' \subseteq cUnsent
        /\ UNCHANGED <<cTx, cAuto, cPc, cPacket, cFed, cHandled, cTransmitted, cAcked, cLost>>
    BY <1>7 DEF SendCommand, TimePasses, Client!Send, Client!Tick, Client!process,
       Client!settings, Client!history
  <2> QED  BY <2>1 DEF ClientTypes
<1>8. CASE \E frame \in Packets : ReachesClient(frame)
  <2>1. UNCHANGED <<cTx, cAuto, cPc, cPacket, cUnsent, cFed, cHandled, cTransmitted,
                    cAcked, cLost>>
    BY <1>8 DEF ReachesClient, Client!Feed, Client!process, Client!settings, Client!history
  <2> QED  BY <2>1 DEF ClientTypes
<1>9. ~Client!DispatchAsserts
  <2>1. cPc = "dispatch" => ~Client!Asserts(cPacket)
    BY <1>1, LinkAssumption DEF ClientInv, Client!Asserts
  <2> QED  BY <2>1 DEF Client!DispatchAsserts
<1> QED
  BY <1>2, <1>3, <1>4, <1>5, <1>6, <1>7, <1>8, <1>9
     DEF Next, Works, ClientWorks, ServerWorks, ServerTransmits, Arrival, ReachesServer, Lose, vars

(* What the server handles, transmits and fails to answer are packets.     *)
LEMMA ServerTypesStep ==
  ASSUME LinkInv, ServerTypes, [Next]_vars
  PROVE  ServerTypes'
<1>1. /\ ServerInv /\ sAt = 0 /\ Commands \subseteq Packets /\ Server!Ifaces = {0}
      /\ sFifo \in [{0} -> Seq(Commands)]
  BY OneInterface DEF LinkInv, ServerInv
<1>2. CASE UNCHANGED serverVars
  BY <1>2 DEF ServerTypes, serverVars
<1>3. CASE Server!ParseValid
  <2> DEFINE p == Head(sFifo[0])
  <2>1. /\ sPacket' \in Packets /\ sPc' = "dispatch"
        /\ UNCHANGED <<sTx, sAuto, sUnsent, sFed, sHandled, sTransmitted, sLost>>
    BY <1>3 DEF Server!ParseValid, Server!settings
  <2>2. sFifo[0] # <<>>
    BY <1>1, <1>3 DEF Server!ParseValid
  <2>3. p \in Commands
    BY <1>1, <2>2
  <2>4. ~AckFlag[p]
    BY <2>3, OneInterface
  <2>5. sAcked' = sAcked
    BY <1>1, <1>3, <2>4 DEF Server!ParseValid, Server!AckMatches
  <2> QED  BY <2>1, <2>5 DEF ServerTypes
<1>4. CASE Server!StartProcess \/ Server!ParseNothing \/ Server!DespoolNothing
  <2>1. /\ UNCHANGED <<sTx, sAuto, sUnsent, sFed, sHandled, sTransmitted, sAcked, sLost>>
        /\ sPc' \in {sPc, "idle", "parse", "despool"} /\ sPacket' \in {sPacket, NoPacket}
    BY <1>4 DEF Server!StartProcess, Server!ParseNothing, Server!DespoolNothing,
       Server!AfterNoFrame, Server!AfterDespool, Server!NextInterface, Server!history,
       Server!settings
  <2> QED  BY <2>1 DEF ServerTypes
<1>5. ASSUME NEW status \in Server!HandlerStatus, Server!Dispatch(status)
      PROVE  ServerTypes'
  <2>1. sPacket \in Packets
    BY <1>1, <1>5 DEF Server!Dispatch, ServerInv
  <2>2. /\ sPc' = "despool" /\ sHandled' \subseteq sHandled \cup {<<0, sPacket>>}
        /\ sLost' \subseteq sLost \cup {<<0, sPacket>>}
        /\ UNCHANGED <<sTx, sAuto, sPacket, sUnsent, sFed, sTransmitted, sAcked>>
    BY <1>1, <1>5 DEF Server!Dispatch, Server!settings
  <2> QED  BY <2>1, <2>2 DEF ServerTypes
<1>6. CASE ServerTransmits
  <2>1. sTransmitted' = sTransmitted \cup {<<0, Server!Popping(0)>>}
    BY <1>1, <1>6 DEF ServerTransmits, Server!DespoolPacket
  <2>2. /\ sPc' \in {sPc, "idle"}
        /\ UNCHANGED <<sTx, sAuto, sPacket, sUnsent, sFed, sHandled, sAcked, sLost>>
    BY <1>6 DEF ServerTransmits, Server!DespoolPacket, Server!AfterDespool,
       Server!NextInterface, Server!settings
  <2>3. Server!Popping(0) \in Packets
    <3> DEFINE s == sSpool[0]
    <3>1. NextReady(s) # ENTRY_NONE
      BY <1>1, <1>6, ServerOperators
         DEF ServerTransmits, Server!DespoolPacket, Server!Transmits, Server!ENTRY_NONE, ENTRY_NONE
    <3>2. WellFormed(s)
      BY <1>1, ServerSettings
    <3>3. NextReady(s) \in InUse(s)
      BY <3>1, <3>2, PopKeeps
    <3>4. s.mPacket[NextReady(s)] \in Packets
      BY <1>1, <3>3 DEF ServerInv, Answered, AnsweredIn
    <3> QED  BY <1>1, <3>4, ServerOperators DEF Server!Popping
  <2> QED  BY <2>1, <2>2, <2>3 DEF ServerTypes
<1>7. CASE \E frame \in Packets : ReachesServer(frame)
  <2>1. UNCHANGED <<sTx, sAuto, sPc, sPacket, sUnsent, sFed, sHandled, sTransmitted,
                    sAcked, sLost>>
    BY <1>7 DEF ReachesServer, Server!Feed, Server!process, Server!settings, Server!history
  <2> QED  BY <2>1 DEF ServerTypes
<1>8. CASE Server!DispatchAsserts
  <2>1. /\ sPc' = "assert"
        /\ UNCHANGED <<sTx, sAuto, sPacket, sUnsent, sFed, sHandled, sTransmitted,
                       sAcked, sLost>>
    BY <1>8 DEF Server!DispatchAsserts, Server!settings, Server!history
  <2> QED  BY <2>1 DEF ServerTypes
<1> QED
  BY <1>2, <1>3, <1>4, <1>5, <1>6, <1>7, <1>8
     DEF Next, Works, ServerWorks, ClientWorks, ClientTransmits, Arrival, ReachesClient,
         SendCommand, TimePasses, Lose, vars

(* A step puts a frame on the line, takes one from it, or neither.         *)
LEMMA LineTypesStep ==
  ASSUME LineTypes, [Next]_vars
  PROVE  LineTypes'
<1>1. /\ toServer' = toServer
         \/ \E frame : toServer' = toServer (+) One(frame) \/ toServer' = toServer (-) One(frame)
      /\ toClient' = toClient
         \/ \E frame : toClient' = toClient (+) One(frame) \/ toClient' = toClient (-) One(frame)
  BY Zenon DEF Next, Works, ClientWorks, ServerWorks, ClientTransmits, ServerTransmits, Arrival,
     ReachesServer, ReachesClient, SendCommand, TimePasses, Lose, vars
<1>2. IsABag(toServer) /\ IsABag(toClient)
  BY DEF LineTypes
<1>3. IsABag(toServer')
  BY Zenon, <1>1, <1>2, BagsKept
<1>4. IsABag(toClient')
  BY Zenon, <1>1, <1>2, BagsKept
<1>5. lossless' \in BOOLEAN
  BY DEF LineTypes, Next, vars
<1> QED
  BY <1>3, <1>4, <1>5 DEF LineTypes, IsABag

(* With the invariant this is the whole type.                              *)
LEMMA LinkTypes ==
  ASSUME LinkInv, ClientTypes, ServerTypes, LineTypes
  PROVE  TypeOK
<1>1. Client!SpoolType = SpoolType /\ Server!SpoolType = SpoolType
  <2>1. Client!Slots = Slots /\ Server!Slots = Slots
    BY DEF Client!Slots, Server!Slots, Slots
  <2>2. Client!EntryState = EntryState /\ Server!EntryState = EntryState
    BY DEF Client!EntryState, Server!EntryState, EntryState
  <2> QED  BY Zenon, <2>1, <2>2 DEF Client!SpoolType, Server!SpoolType, SpoolType
<1>2. Client!Ifaces = {0} /\ Server!Ifaces = {0} /\ Commands \subseteq Packets
  BY OneInterface
<1>3. /\ cFifo \in [{0} -> Seq(Packets \cup Malformed)]
      /\ sFifo \in [{0} -> Seq(Packets \cup Malformed)]
  <2>1. \A S : S \subseteq Packets => Seq(S) \subseteq Seq(Packets \cup Malformed)
    OBVIOUS
  <2>2. cFifo \in [{0} -> Seq(Packets)] /\ sFifo \in [{0} -> Seq(Commands)]
    BY DEF LinkInv, ClientInv, ServerInv
  <2>3. Seq(Packets) \subseteq Seq(Packets \cup Malformed)
    BY <2>1
  <2>4. Seq(Commands) \subseteq Seq(Packets \cup Malformed)
    BY <1>2, <2>1
  <2> QED  BY <2>2, <2>3, <2>4
<1>4. /\ cSpool \in [{0} -> SpoolType] /\ cAt = 0
      /\ sSpool \in [{0} -> SpoolType] /\ sAt = 0
  BY DEF LinkInv, ClientInv, ServerInv
<1>5. Client!TypeOK
  BY <1>1, <1>2, <1>3, <1>4 DEF ClientTypes, Client!TypeOK
<1>6. Server!TypeOK
  BY <1>1, <1>2, <1>3, <1>4 DEF ServerTypes, Server!TypeOK
<1>7. BagToSet(toServer) \subseteq Frames /\ BagToSet(toClient) \subseteq Frames
  BY <1>2 DEF LinkInv, LineInv, BagToSet, Frames, Answered, AnsweredIn
<1> QED
  BY Zenon, <1>5, <1>6, <1>7 DEF TypeOK, LineTypes

(* Both services and the line are well-typed throughout, also once the     *)
(* server has stopped at an assertion.                                     *)
THEOREM LinkTypeCorrect == Spec => []TypeOK
<1>1. LinkInv /\ LinkInv' /\ ClientTypes /\ ServerTypes /\ LineTypes /\ [Next]_vars
        => ClientTypes' /\ ServerTypes' /\ LineTypes'
  BY ClientTypesStep, ServerTypesStep, LineTypesStep
<1>2. LinkInv /\ ClientTypes /\ ServerTypes /\ LineTypes => TypeOK
  BY LinkTypes
<1> QED
  BY <1>1, <1>2, LinkTypesInit, LinkInvCorrect, PTL DEF Spec
=============================================================================
