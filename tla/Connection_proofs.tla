------------------------- MODULE Connection_proofs -------------------------
(***************************************************************************)
(* Proofs about Connection, for any callers of finish() and close(), any   *)
(* number of writes and each plugin.                                       *)
(***************************************************************************)
EXTENDS Connection, TLAPS

\* Where a queue of messages or answers has those about writes.
Writes(q) == {i \in 1..Len(q) : q[i].kind = "write"}

\* Where it has those about disconnecting.
Asks(q) == {i \in 1..Len(q) : q[i].kind = "disconnect"}

\* The method calls on the channel.
Messages == [kind : {"write"}, arg : 1..MaxWrites] \cup [kind : {"disconnect"}, arg : Callers]

\* The type of the answers.
AnswersOK ==
    answers \in Seq([kind : {"write"}, arg : 1..MaxWrites, ok : BOOLEAN]
                    \cup [kind : {"disconnect"}, arg : Callers, ok : BOOLEAN])

\* The chain has one write under way at most: the one after those settled.
OneUnderWay ==
    /\ poisoned => settled = added
    /\ ~poisoned => handed \in {settled, settled + 1}
    /\ Writes(channel) \cup Writes(answers) # {} => ~poisoned /\ handed = settled + 1
    /\ \A i \in Writes(channel) : channel[i].arg = settled + 1
    /\ \A i, j \in Writes(channel) : i = j
    /\ \A i, j \in Writes(answers) : i = j
    /\ Writes(channel) = {} \/ Writes(answers) = {}

\* What the peer has is what was settled, and the write whose answer says so.
Sent ==
    /\ \A i \in 1..Len(delivered) : delivered[i] = i
    /\ Len(delivered) <= handed
    /\ ~poisoned /\ Writes(answers) = {} => Len(delivered) = settled
    /\ \A i \in Writes(answers) :
          Len(delivered) = IF answers[i].ok THEN settled + 1 ELSE settled

\* After close() the native connection is gone, or a disconnect request waits
\* ahead of every write that close() discards.
Fenced ==
    cut # NoCut =>
        /\ Len(delivered) <= cut
        /\ \/ entry = "none"
           \/ \E k \in Asks(channel) :
                 \A i \in Writes(channel) : i < k => channel[i].arg <= cut

\* Everything was settled well.
AllSettled == sinkClosed /\ ~poisoned /\ settled = added

\* A finish() that found the sink open asks to disconnect once all is settled.
AsksLate ==
    /\ \A c \in first : /\ sinkClosed /\ phase[c] # "idle"
                        /\ phase[c] \in {"finishing", "finished"} => AllSettled
    /\ \A i \in Asks(channel) : /\ phase[channel[i].arg] # "idle"
                                /\ channel[i].arg \in first => AllSettled
    /\ \A i \in Asks(answers) : /\ phase[answers[i].arg] # "idle"
                                /\ answers[i].arg \in first => AllSettled

\* An answer to a disconnect request comes from a plugin that let go.
Released == Asks(answers) # {} => entry = "none"

\* A plugin that posts "connected" when Dart listens has posted nothing before.
DropsLast ==
    plugin = "android" =>
        /\ IF listened THEN "connected" \in posted
                       ELSE "connected" \notin posted /\ events = <<>>
        /\ \A i \in 1..Len(events) : events[i] \in posted
        /\ \A i, j \in 1..Len(events) :
              events[i] = "disconnected" /\ i < j => events[j] # "connected"
        /\ subscribed /\ state = "disconnected"
              => listened /\ \A i \in 1..Len(events) : events[i] # "connected"

\* The inductive invariant.
IInv == /\ TypeOK /\ AnswersOK /\ OneUnderWay /\ Sent /\ Fenced /\ AsksLate
        /\ Released /\ ReturnedIsReleased /\ DropsLast

-----------------------------------------------------------------------------
\* A message put at the end of a queue.
LEMMA Appended ==
  ASSUME NEW S, NEW q \in Seq(S), NEW m \in S
  PROVE  /\ Append(q, m) \in Seq(S)
         /\ Len(Append(q, m)) = Len(q) + 1
         /\ Append(q, m)[Len(q) + 1] = m
         /\ \A i \in 1..Len(q) : Append(q, m)[i] = q[i]
         /\ m.kind = "write" => /\ Writes(Append(q, m)) = Writes(q) \cup {Len(q) + 1}
                                /\ Asks(Append(q, m)) = Asks(q)
         /\ m.kind = "disconnect" => /\ Asks(Append(q, m)) = Asks(q) \cup {Len(q) + 1}
                                     /\ Writes(Append(q, m)) = Writes(q)
<1>1. /\ Append(q, m) \in Seq(S)
      /\ Len(Append(q, m)) = Len(q) + 1
      /\ Append(q, m)[Len(q) + 1] = m
      /\ \A i \in 1..Len(q) : Append(q, m)[i] = q[i]
      /\ Len(q) \in Nat
  OBVIOUS
<1>2. 1..(Len(q) + 1) = 1..Len(q) \cup {Len(q) + 1} /\ Len(q) + 1 \notin 1..Len(q)
  BY <1>1
<1> QED
  BY <1>1, <1>2 DEF Writes, Asks

\* The first message of a queue taken away.
LEMMA Taken ==
  ASSUME NEW S, NEW q \in Seq(S), q # <<>>
  PROVE  /\ Head(q) = q[1] /\ Head(q) \in S
         /\ Tail(q) \in Seq(S)
         /\ Len(q) \in Nat /\ Len(q) >= 1 /\ Len(Tail(q)) = Len(q) - 1
         /\ \A i \in 1..Len(Tail(q)) : Tail(q)[i] = q[i + 1]
         /\ \A i \in Writes(Tail(q)) : i + 1 \in Writes(q)
         /\ \A i \in Asks(Tail(q)) : i + 1 \in Asks(q)
         /\ \A i \in Asks(q) : i # 1 => i - 1 \in Asks(Tail(q))
         /\ Head(q).kind = "write" => 1 \in Writes(q)
         /\ Head(q).kind = "disconnect" => 1 \in Asks(q)
<1>1. /\ Head(q) = q[1] /\ Head(q) \in S
      /\ Tail(q) \in Seq(S)
      /\ Len(q) \in Nat /\ Len(q) >= 1 /\ Len(Tail(q)) = Len(q) - 1
      /\ \A i \in 1..Len(Tail(q)) : Tail(q)[i] = q[i + 1]
  OBVIOUS
<1> QED
  BY <1>1 DEF Writes, Asks

\* A new connection has nothing under way.
LEMMA InitIInv == Init => IInv
<1> SUFFICES ASSUME Init PROVE IInv
  OBVIOUS
<1>0. Writes(<<>>) = {} /\ Asks(<<>>) = {}
  BY DEF Writes, Asks
<1>1. TypeOK /\ AnswersOK
  <2>1. /\ phase \in [Callers -> Phases] /\ added \in 0..MaxWrites /\ settled \in 0..added
        /\ cut \in 0..NoCut /\ state \in {"connected", "disconnecting", "disconnected"}
    BY WritesAssumption DEF Init, Phases, NoCut
  <2>2. \A S : <<>> \in Seq(S)
    OBVIOUS
  <2> QED
    BY <2>1, <2>2 DEF Init, TypeOK, AnswersOK
<1>2. OneUnderWay /\ Sent /\ Fenced /\ Released
  BY <1>0 DEF Init, OneUnderWay, Sent, Fenced, Released
<1>3. AsksLate
  BY <1>0 DEF Init, AsksLate
<1>4. ReturnedIsReleased /\ DropsLast
  BY DEF Init, ReturnedIsReleased, DropsLast
<1> QED
  BY <1>1, <1>2, <1>3, <1>4 DEF IInv

\* add() makes the chain longer, and a failed one fails the new write too.
LEMMA AddKeepsInv ==
  ASSUME IInv, Add
  PROVE  IInv'
<1>0. /\ TypeOK /\ AnswersOK /\ OneUnderWay /\ Sent /\ Fenced /\ AsksLate
      /\ Released /\ ReturnedIsReleased /\ DropsLast /\ MaxWrites \in Nat
  BY WritesAssumption DEF IInv
<1>1. /\ added' = added + 1 /\ added < MaxWrites /\ ~sinkClosed
      /\ settled' = IF poisoned THEN settled + 1 ELSE settled
      /\ UNCHANGED <<state, subscribed, disposed, sinkClosed, handed, poisoned, phase, first, cut,
                     channel, answers, events, plugin, listened, entry, posted, delivered>>
  BY DEF Add, pluginVars
<1>2. TypeOK'
  <2>1. added' \in 0..MaxWrites /\ settled' \in 0..added' /\ handed' \in 0..added'
    BY <1>0, <1>1 DEF TypeOK
  <2> QED
    BY <1>0, <1>1, <2>1 DEF TypeOK, NoCut
<1>3. OneUnderWay' /\ Sent'
  BY <1>0, <1>1 DEF OneUnderWay, Sent, TypeOK
<1>4. Fenced' /\ AsksLate'
  BY <1>0, <1>1 DEF Fenced, AsksLate, AllSettled, NoCut
<1> QED
  BY <1>0, <1>1, <1>2, <1>3, <1>4 DEF IInv, AnswersOK, Released, ReturnedIsReleased, DropsLast

\* The next write of the chain goes out, behind the requests that fence it off.
LEMMA HandOverKeepsInv ==
  ASSUME IInv, HandOver
  PROVE  IInv'
<1>0. /\ TypeOK /\ AnswersOK /\ OneUnderWay /\ Sent /\ Fenced /\ AsksLate
      /\ Released /\ ReturnedIsReleased /\ DropsLast /\ MaxWrites \in Nat
  BY WritesAssumption DEF IInv
<1>1. /\ ~poisoned /\ handed = settled /\ settled < added /\ handed' = handed + 1
      /\ channel' = Append(channel, Write(handed + 1))
      /\ UNCHANGED <<state, subscribed, disposed, sinkClosed, added, settled, poisoned, phase,
                     first, cut, answers, events, plugin, listened, entry, posted, delivered>>
  BY DEF HandOver, pluginVars
<1>2. channel \in Seq(Messages) /\ Write(handed + 1) \in Messages
  BY <1>0, <1>1 DEF TypeOK, Messages, Write
<1>3. /\ channel' \in Seq(Messages)
      /\ Writes(channel') = Writes(channel) \cup {Len(channel) + 1}
      /\ Asks(channel') = Asks(channel)
      /\ Len(channel) \in Nat
      /\ channel'[Len(channel) + 1] = Write(handed + 1)
      /\ \A i \in 1..Len(channel) : channel'[i] = channel[i]
  BY <1>1, <1>2, Appended DEF Write
<1>4. Writes(channel) = {} /\ Writes(answers) = {}
  BY <1>0, <1>1 DEF OneUnderWay, TypeOK
<1>5. TypeOK'
  <2>1. handed' \in 0..added'
    BY <1>0, <1>1 DEF TypeOK
  <2> QED
    BY <1>0, <1>1, <1>3, <2>1 DEF TypeOK, Messages, NoCut
<1>6. OneUnderWay'
  BY <1>0, <1>1, <1>3, <1>4 DEF OneUnderWay, TypeOK, Write
<1>7. Sent'
  BY <1>0, <1>1, <1>4 DEF Sent, TypeOK
<1>8. Fenced'
  <2>1. \A k \in Asks(channel) : ~(Len(channel) + 1 < k)
    BY <1>3 DEF Asks
  <2> QED
    BY <1>0, <1>1, <1>3, <1>4, <2>1 DEF Fenced, NoCut
<1>9. AsksLate'
  BY <1>0, <1>1, <1>3 DEF AsksLate, AllSettled, Asks
<1> QED
  BY <1>0, <1>1, <1>5, <1>6, <1>7, <1>8, <1>9
  DEF IInv, AnswersOK, Released, ReturnedIsReleased, DropsLast

\* An answer settles its write, or ends the chain.
LEMMA WriteAnsweredKeepsInv ==
  ASSUME IInv, WriteAnswered
  PROVE  IInv'
<1>0. /\ TypeOK /\ AnswersOK /\ OneUnderWay /\ Sent /\ Fenced /\ AsksLate
      /\ Released /\ ReturnedIsReleased /\ DropsLast /\ MaxWrites \in Nat
  BY WritesAssumption DEF IInv
<1>1. /\ answers # <<>> /\ Head(answers).kind = "write" /\ answers' = Tail(answers)
      /\ UNCHANGED <<state, subscribed, disposed, sinkClosed, added, handed, phase, first, cut,
                     channel, events, plugin, listened, entry, posted, delivered>>
  BY DEF WriteAnswered, pluginVars
<1>2. /\ Writes(answers') = {} /\ Writes(channel) = {} /\ 1 \in Writes(answers)
      /\ \A i \in Asks(answers') : i + 1 \in Asks(answers) /\ answers'[i] = answers[i + 1]
      /\ Len(answers) \in Nat /\ Head(answers) = answers[1]
  <2>1. /\ \A i \in Writes(Tail(answers)) : i + 1 \in Writes(answers)
        /\ \A i \in Asks(Tail(answers)) : i + 1 \in Asks(answers)
        /\ \A i \in 1..Len(Tail(answers)) : Tail(answers)[i] = answers[i + 1]
        /\ Len(answers) \in Nat /\ Len(Tail(answers)) \in Nat
        /\ 1 \in Writes(answers) /\ Head(answers) = answers[1]
    BY <1>0, <1>1, Taken DEF AnswersOK
  <2>2. \A i \in 1..Len(Tail(answers)) : i + 1 # 1
    BY <2>1
  <2>3. Writes(Tail(answers)) = {}
    BY <1>0, <2>1, <2>2 DEF OneUnderWay, Writes
  <2> QED
    BY <1>0, <1>1, <2>1, <2>3 DEF OneUnderWay, Asks
<1>3. /\ ~poisoned /\ handed = settled + 1 /\ settled < added
      /\ Head(answers).ok => Len(delivered) = settled + 1
  BY <1>0, <1>2 DEF OneUnderWay, Sent, TypeOK
<1>4. AnswersOK'
  BY <1>0, <1>1 DEF AnswersOK
<1>5. /\ \A d \in first : phase[d] \notin {"finishing", "finished"}
      /\ \A i \in Asks(channel) : channel[i].arg \notin first
      /\ \A i \in Asks(answers) : answers[i].arg \notin first
  BY <1>0, <1>3 DEF AsksLate, AllSettled, TypeOK
<1>6. \/ settled' = added /\ poisoned' = TRUE
      \/ settled' = settled + 1 /\ poisoned' = FALSE /\ Head(answers).ok
  BY <1>3 DEF WriteAnswered
<1>7. TypeOK'
  <2>1. settled' \in 0..added' /\ poisoned' \in BOOLEAN
    <3>1. added \in Nat /\ settled \in Nat /\ settled <= added /\ added' = added
      BY <1>0, <1>1 DEF TypeOK
    <3>2. settled' = added \/ settled' = settled + 1
      BY <1>6
    <3>3. settled < added
      BY <1>3
    <3>4. settled' \in 0..added'
      BY <3>1, <3>2, <3>3
    <3>5. poisoned' \in BOOLEAN
      BY <1>6
    <3> QED
      BY <3>4, <3>5
  <2> QED
    BY <1>0, <1>1, <2>1 DEF TypeOK, NoCut
<1>8. OneUnderWay' /\ Sent'
  BY <1>0, <1>1, <1>2, <1>3, <1>6 DEF TypeOK, OneUnderWay, Sent
<1>9. Fenced' /\ Released' /\ ReturnedIsReleased' /\ DropsLast'
  BY <1>0, <1>1, <1>2 DEF Fenced, Released, ReturnedIsReleased, DropsLast, NoCut
<1>10. AsksLate'
  BY <1>0, <1>1, <1>2, <1>5 DEF AsksLate, AllSettled
<1> QED
  BY <1>4, <1>7, <1>8, <1>9, <1>10 DEF IInv

\* A request to disconnect put at the end of the channel, by a caller that is not
\* idle any more and, if it found the sink open, after all was settled.
LEMMA AskKeeps ==
  ASSUME IInv, NEW c \in Callers,
         channel' = Append(channel, DisconnectFor(c)),
         sinkClosed' \in BOOLEAN, sinkClosed => sinkClosed',
         phase' \in [Callers -> Phases],
         phase'[c] \notin {"idle", "flush", "finished", "closed"},
         \A d \in Callers : d # c => phase'[d] = phase[d],
         c \in first => AllSettled,
         state' \in {state, "disconnecting"},
         cut' \in {cut, handed},
         UNCHANGED <<subscribed, disposed, added, settled, handed, poisoned, first, answers,
                     events, pluginVars>>
  PROVE  IInv'
<1>0. /\ TypeOK /\ AnswersOK /\ OneUnderWay /\ Sent /\ Fenced /\ AsksLate
      /\ Released /\ ReturnedIsReleased /\ DropsLast /\ MaxWrites \in Nat
  BY WritesAssumption DEF IInv
<1>1. DisconnectFor(c) \in Messages /\ channel \in Seq(Messages)
  BY <1>0 DEF TypeOK, Messages, DisconnectFor
<1>2. /\ channel' \in Seq(Messages)
      /\ Writes(channel') = Writes(channel)
      /\ Asks(channel') = Asks(channel) \cup {Len(channel) + 1}
      /\ Len(channel) \in Nat
      /\ channel'[Len(channel) + 1] = DisconnectFor(c)
      /\ \A i \in 1..Len(channel) : channel'[i] = channel[i]
  BY <1>1, Appended DEF DisconnectFor
<1>3. handed \in 0..MaxWrites /\ Len(delivered) <= handed
      /\ \A i \in Writes(channel) : channel[i].arg <= handed
  BY <1>0 DEF TypeOK, OneUnderWay, Sent
<1>4. TypeOK'
  <2>1. cut' \in 0..NoCut /\ state' \in {"connected", "disconnecting", "disconnected"}
    BY <1>0, <1>3 DEF TypeOK, NoCut
  <2> QED
    BY <1>0, <1>2, <2>1 DEF TypeOK, Messages, pluginVars
<1>5. OneUnderWay' /\ Sent'
  BY <1>0, <1>2 DEF OneUnderWay, Sent, pluginVars, Writes
<1>6. Fenced'
  <2>1. CASE cut' = cut
    BY <1>0, <1>2, <2>1 DEF Fenced, pluginVars, NoCut, Writes
  <2>2. CASE cut' = handed
    <3>1. Len(channel) + 1 \in Asks(channel')
      BY <1>2
    <3>2. \A i \in Writes(channel') : channel'[i].arg <= cut'
      BY <1>2, <1>3, <2>2 DEF Writes
    <3> QED
      BY <1>3, <2>2, <3>1, <3>2 DEF Fenced, pluginVars
  <2> QED
    BY <2>1, <2>2
<1>7. AsksLate'
  <2>1. /\ \A d \in first : d # c => phase'[d] = phase[d]
        /\ \A i \in Asks(channel) : channel[i].arg \in Callers /\ channel'[i] = channel[i]
        /\ \A i \in Asks(answers) : answers[i].arg \in Callers
        /\ channel'[Len(channel) + 1].arg = c
    BY <1>0, <1>1, <1>2 DEF Asks, TypeOK, AnswersOK, DisconnectFor
  <2>2. AllSettled => AllSettled'
    BY DEF AllSettled
  <2>3. \A d \in first : sinkClosed' /\ phase'[d] # "idle"
                         /\ (phase'[d] \in {"finishing", "finished"} => AllSettled')
    BY <1>0, <2>1, <2>2 DEF AsksLate, AllSettled
  <2>4. \A i \in Asks(channel') : /\ phase'[channel'[i].arg] # "idle"
                                  /\ channel'[i].arg \in first => AllSettled'
    <3>1. ASSUME NEW i \in Asks(channel)
          PROVE  /\ phase'[channel'[i].arg] # "idle"
                 /\ channel'[i].arg \in first => AllSettled'
      BY <1>0, <2>1, <2>2 DEF AsksLate, AllSettled
    <3>2. /\ phase'[channel'[Len(channel) + 1].arg] # "idle"
          /\ channel'[Len(channel) + 1].arg \in first => AllSettled'
      BY <2>1, <2>2 DEF AllSettled
    <3> QED
      BY <1>2, <3>1, <3>2
  <2>5. \A i \in Asks(answers) : /\ phase'[answers[i].arg] # "idle"
                                 /\ answers[i].arg \in first => AllSettled'
    BY <1>0, <2>1, <2>2 DEF AsksLate, AllSettled
  <2> QED
    BY <2>3, <2>4, <2>5 DEF AsksLate
<1>8. AnswersOK' /\ Released' /\ ReturnedIsReleased' /\ DropsLast'
  BY <1>0 DEF AnswersOK, Released, ReturnedIsReleased, DropsLast, pluginVars
<1> QED
  BY <1>4, <1>5, <1>6, <1>7, <1>8 DEF IInv

\* finish() waits for the chain, or asks to disconnect at once.
LEMMA CallFinishKeepsInv ==
  ASSUME IInv, NEW c \in Callers, CallFinish(c)
  PROVE  IInv'
<1>0. /\ TypeOK /\ AnswersOK /\ OneUnderWay /\ Sent /\ Fenced /\ AsksLate
      /\ Released /\ ReturnedIsReleased /\ DropsLast /\ MaxWrites \in Nat
  BY WritesAssumption DEF IInv
<1>1. CASE sinkClosed
  <2>1. c \notin first
    BY <1>0 DEF CallFinish, AsksLate
  <2>2. /\ phase' \in [Callers -> Phases] /\ phase'[c] = "finishing"
        /\ \A d \in Callers : d # c => phase'[d] = phase[d]
    BY <1>0, <1>1 DEF CallFinish, TypeOK, Phases
  <2>3. /\ channel' = Append(channel, DisconnectFor(c)) /\ state' = "disconnecting"
        /\ sinkClosed' = TRUE /\ cut' = cut
        /\ UNCHANGED <<subscribed, disposed, added, settled, handed, poisoned, first, answers,
                       events, pluginVars>>
    BY <1>1 DEF CallFinish
  <2> QED
    BY <1>0, <2>1, <2>2, <2>3, AskKeeps DEF TypeOK
<1>2. CASE ~sinkClosed
  <2>1. /\ UNCHANGED <<channel, answers, events, delivered, plugin, listened, entry, posted,
                       settled, handed, added, poisoned>>
        /\ first = {} /\ first' = {c} /\ phase' = [phase EXCEPT ![c] = "flush"]
    BY <1>0, <1>2 DEF CallFinish, AsksLate, pluginVars
  <2>2. TypeOK'
    BY <1>0, <1>2, <2>1 DEF CallFinish, TypeOK, Phases, NoCut
  <2>3. AsksLate'
    BY <1>0, <2>1 DEF CallFinish, AsksLate, TypeOK, AllSettled
  <2>4. OneUnderWay' /\ Sent' /\ Fenced' /\ Released' /\ AnswersOK'
    BY <1>0, <2>1 DEF CallFinish, OneUnderWay, Sent, Fenced, Released, AnswersOK, NoCut
  <2>5. ReturnedIsReleased' /\ DropsLast'
    BY <1>0, <2>1 DEF CallFinish, ReturnedIsReleased, DropsLast, TypeOK
  <2> QED
    BY <2>2, <2>3, <2>4, <2>5 DEF IInv
<1> QED
  BY <1>1, <1>2

\* The chain that finish() waited for has ended.
LEMMA FlushedKeepsInv ==
  ASSUME IInv, NEW c \in Callers, Flushed(c)
  PROVE  IInv'
<1>0. /\ TypeOK /\ AnswersOK /\ OneUnderWay /\ Sent /\ Fenced /\ AsksLate
      /\ Released /\ ReturnedIsReleased /\ DropsLast /\ MaxWrites \in Nat
  BY WritesAssumption DEF IInv
<1>1. CASE poisoned
  <2>1. /\ phase' = [phase EXCEPT ![c] = "threw"]
        /\ UNCHANGED <<channel, answers, events, delivered, plugin, listened, entry, posted,
                       settled, handed, added, poisoned, first, sinkClosed, cut, state,
                       subscribed, disposed>>
    BY <1>1 DEF Flushed, pluginVars
  <2>2. TypeOK'
    BY <1>0, <2>1 DEF TypeOK, Phases, NoCut
  <2>3. AsksLate'
    BY <1>0, <2>1 DEF AsksLate, TypeOK, AllSettled
  <2>4. OneUnderWay' /\ Sent' /\ Fenced' /\ Released' /\ AnswersOK'
    BY <1>0, <2>1 DEF OneUnderWay, Sent, Fenced, Released, AnswersOK, NoCut
  <2>5. ReturnedIsReleased' /\ DropsLast'
    BY <1>0, <2>1 DEF ReturnedIsReleased, DropsLast, TypeOK
  <2> QED
    BY <2>2, <2>3, <2>4, <2>5 DEF IInv
<1>2. CASE ~poisoned
  <2>1. c \in first => AllSettled
    BY <1>0, <1>2 DEF Flushed, AsksLate, AllSettled
  <2>2. /\ phase' \in [Callers -> Phases] /\ phase'[c] = "finishing"
        /\ \A d \in Callers : d # c => phase'[d] = phase[d]
    BY <1>0, <1>2 DEF Flushed, TypeOK, Phases
  <2>3. /\ channel' = Append(channel, DisconnectFor(c)) /\ state' = state
        /\ sinkClosed' = sinkClosed /\ cut' = cut /\ sinkClosed \in BOOLEAN
        /\ UNCHANGED <<subscribed, disposed, added, settled, handed, poisoned, first, answers,
                       events, pluginVars>>
    BY <1>0, <1>2 DEF Flushed, TypeOK
  <2> QED
    BY <1>0, <2>1, <2>2, <2>3, AskKeeps DEF TypeOK
<1> QED
  BY <1>1, <1>2

\* close() asks at once, which fences off what was not handed over.
LEMMA CallCloseKeepsInv ==
  ASSUME IInv, NEW c \in Callers, CallClose(c)
  PROVE  IInv'
<1>0. /\ TypeOK /\ AnswersOK /\ OneUnderWay /\ Sent /\ Fenced /\ AsksLate
      /\ Released /\ ReturnedIsReleased /\ DropsLast /\ MaxWrites \in Nat
  BY WritesAssumption DEF IInv
<1>1. c \notin first
  BY <1>0 DEF CallClose, AsksLate
<1>2. /\ phase' \in [Callers -> Phases] /\ phase'[c] = "closing"
      /\ \A d \in Callers : d # c => phase'[d] = phase[d]
  BY <1>0 DEF CallClose, TypeOK, Phases
<1>3. /\ channel' = Append(channel, DisconnectFor(c)) /\ state' = "disconnecting"
      /\ sinkClosed' = TRUE
      /\ UNCHANGED <<subscribed, disposed, added, settled, handed, poisoned, first, answers,
                     events, pluginVars>>
  BY DEF CallClose
<1>4. cut' \in {cut, handed}
  BY DEF CallClose
<1> QED
  BY <1>1, <1>2, <1>3, <1>4, AskKeeps

\* The caller whose request was answered returns or throws.
LEMMA DisconnectAnsweredKeepsInv ==
  ASSUME IInv, DisconnectAnswered
  PROVE  IInv'
<1>0. /\ TypeOK /\ AnswersOK /\ OneUnderWay /\ Sent /\ Fenced /\ AsksLate
      /\ Released /\ ReturnedIsReleased /\ DropsLast /\ MaxWrites \in Nat
  BY WritesAssumption DEF IInv
<1>1. /\ answers # <<>> /\ Head(answers).kind = "disconnect" /\ answers' = Tail(answers)
      /\ UNCHANGED <<disposed, sinkClosed, added, settled, handed, poisoned, first, cut, channel,
                     events, plugin, listened, entry, posted, delivered>>
  BY DEF DisconnectAnswered, pluginVars
<1>2. /\ Head(answers) = answers[1] /\ 1 \in Asks(answers) /\ Len(answers) \in Nat
      /\ \A i \in Writes(answers') : i + 1 \in Writes(answers) /\ answers'[i] = answers[i + 1]
      /\ \A i \in Asks(answers') : i + 1 \in Asks(answers) /\ answers'[i] = answers[i + 1]
      /\ \A i \in Writes(answers) : i # 1 /\ i - 1 \in Writes(answers')
  BY <1>0, <1>1, Taken DEF AnswersOK, Writes, Asks
<1>3. AnswersOK'
  BY <1>0, <1>1 DEF AnswersOK
<1> DEFINE c == Head(answers).arg
<1>4. /\ c \in Callers /\ phase[c] # "idle" /\ (c \in first => AllSettled)
      /\ entry = "none"
  BY <1>0, <1>2 DEF AnswersOK, AsksLate, Released, Asks
<1>5. /\ phase' \in [Callers -> Phases] /\ phase'[c] # "idle"
      /\ \A d \in Callers : d # c => phase'[d] = phase[d]
      /\ state' \in {state, "disconnected"}
      /\ \/ UNCHANGED <<state, subscribed>>
         \/ subscribed' = FALSE
  BY <1>0, <1>4 DEF DisconnectAnswered, TypeOK, Phases
<1>6. TypeOK'
  BY <1>0, <1>1, <1>5 DEF TypeOK, NoCut
<1>7. OneUnderWay'
  <2>1. /\ Writes(channel') = Writes(channel)
        /\ Writes(answers') # {} => Writes(answers) # {}
        /\ \A i, j \in Writes(answers') : i + 1 \in Writes(answers) /\ j + 1 \in Writes(answers)
        /\ \A i \in Writes(answers') : i \in Nat
    BY <1>1, <1>2 DEF Writes
  <2>2. \A i, j \in Writes(answers') : i + 1 = j + 1 => i = j
    BY <2>1
  <2>3. \A i, j \in Writes(answers') : i = j
    BY <1>0, <2>1, <2>2 DEF OneUnderWay
  <2> QED
    BY <1>0, <1>1, <2>1, <2>3 DEF OneUnderWay
<1>8. Sent'
  BY <1>0, <1>1, <1>2 DEF Sent, Writes
<1>9. AsksLate'
  <2>1. /\ \A i \in Asks(channel) : channel[i].arg \in Callers
        /\ \A i \in Asks(answers) : answers[i].arg \in Callers
    BY <1>0 DEF Asks, TypeOK, AnswersOK
  <2>2. AllSettled' = AllSettled
    BY <1>1 DEF AllSettled
  <2>3. \A d \in first : /\ sinkClosed' /\ phase'[d] # "idle"
                         /\ phase'[d] \in {"finishing", "finished"} => AllSettled
    BY <1>0, <1>1, <1>4, <1>5 DEF AsksLate, TypeOK
  <2>4. \A i \in Asks(channel) : phase'[channel[i].arg] # "idle"
    BY <1>0, <1>5, <2>1 DEF AsksLate
  <2>5. \A i \in Asks(answers') : /\ phase'[answers'[i].arg] # "idle"
                                  /\ answers'[i].arg \in first => AllSettled
    BY <1>0, <1>2, <1>5, <2>1 DEF AsksLate
  <2> QED
    BY <1>0, <1>1, <2>2, <2>3, <2>4, <2>5 DEF AsksLate
<1>10. Fenced' /\ Released' /\ ReturnedIsReleased'
  BY <1>0, <1>1, <1>4 DEF Fenced, Released, ReturnedIsReleased, NoCut
<1>11. DropsLast'
  BY <1>0, <1>1, <1>5 DEF DropsLast
<1> QED
  BY <1>3, <1>6, <1>7, <1>8, <1>9, <1>10, <1>11 DEF IInv

\* dispose() only stops listening.
LEMMA DisposeKeepsInv ==
  ASSUME IInv, Dispose
  PROVE  IInv'
<1>0. /\ TypeOK /\ AnswersOK /\ OneUnderWay /\ Sent /\ Fenced /\ AsksLate
      /\ Released /\ ReturnedIsReleased /\ DropsLast /\ MaxWrites \in Nat
  BY WritesAssumption DEF IInv
<1>1. TypeOK' /\ AnswersOK' /\ OneUnderWay' /\ Sent'
  BY <1>0 DEF Dispose, TypeOK, AnswersOK, OneUnderWay, Sent, pluginVars, NoCut
<1>2. Fenced' /\ Released' /\ ReturnedIsReleased' /\ DropsLast'
  BY <1>0 DEF Dispose, Fenced, Released, ReturnedIsReleased, DropsLast, pluginVars, NoCut
<1>3. AsksLate'
  BY <1>0 DEF Dispose, AsksLate, AllSettled
<1> QED
  BY <1>1, <1>2, <1>3 DEF IInv

\* An event leaves the ones after it, among which nothing revives.
LEMMA EventArrivesKeepsInv ==
  ASSUME IInv, EventArrives
  PROVE  IInv'
<1>0. /\ TypeOK /\ AnswersOK /\ OneUnderWay /\ Sent /\ Fenced /\ AsksLate
      /\ Released /\ ReturnedIsReleased /\ DropsLast /\ MaxWrites \in Nat
  BY WritesAssumption DEF IInv
<1>1. /\ events \in Seq({"connected", "disconnected"}) /\ events # <<>> /\ events' = Tail(events)
      /\ UNCHANGED <<subscribed, disposed, sinkClosed, added, settled, handed, poisoned, phase,
                     first, cut, channel, answers, plugin, listened, entry, posted, delivered>>
  BY <1>0 DEF EventArrives, TypeOK, pluginVars
<1>2. /\ Head(events) = events[1] /\ Head(events) \in {"connected", "disconnected"}
      /\ events' \in Seq({"connected", "disconnected"})
      /\ Len(events) \in Nat /\ Len(events) >= 1 /\ Len(events') = Len(events) - 1
      /\ \A i \in 1..Len(events') : events'[i] = events[i + 1]
  BY <1>1
<1>3. TypeOK'
  BY <1>0, <1>1, <1>2 DEF EventArrives, TypeOK, NoCut
<1>4. AnswersOK' /\ OneUnderWay' /\ Sent' /\ Fenced' /\ Released' /\ ReturnedIsReleased'
  BY <1>0, <1>1 DEF AnswersOK, OneUnderWay, Sent, Fenced, Released, ReturnedIsReleased, NoCut
<1>5. AsksLate'
  BY <1>0, <1>1 DEF AsksLate, AllSettled
<1>6. DropsLast'
  <2>1. CASE subscribed /\ Head(events) = "disconnected"
    BY <1>0, <1>1, <1>2, <2>1 DEF DropsLast
  <2>2. CASE subscribed /\ Head(events) = "connected"
    BY <1>0, <1>1, <1>2, <2>2 DEF DropsLast, EventArrives
  <2>3. CASE ~subscribed
    BY <1>0, <1>1, <1>2, <2>3 DEF DropsLast
  <2> QED
    BY <1>2, <2>1, <2>2, <2>3
<1> QED
  BY <1>3, <1>4, <1>5, <1>6 DEF IInv

\* An answer put at the end of the answers, to the message that was taken.
LEMMA AnswerKeeps ==
  ASSUME IInv, channel # <<>>, NEW ok \in BOOLEAN,
         channel' = Tail(channel), Answer(Head(channel), ok),
         entry' \in {entry, "none"},
         Head(channel).kind = "disconnect" => entry' = "none" /\ delivered' = delivered,
         Head(channel).kind = "write" =>
             delivered' = IF ok THEN Append(delivered, Head(channel).arg) ELSE delivered,
         Head(channel).kind = "write" /\ ok => entry # "none",
         UNCHANGED dartVars
  PROVE  /\ AnswersOK' /\ OneUnderWay' /\ Sent' /\ Fenced' /\ AsksLate'
         /\ Released' /\ ReturnedIsReleased'
         /\ channel' \in Seq(Messages) /\ delivered' \in Seq(1..MaxWrites)
<1>0. /\ TypeOK /\ AnswersOK /\ OneUnderWay /\ Sent /\ Fenced /\ AsksLate
      /\ Released /\ ReturnedIsReleased /\ DropsLast /\ MaxWrites \in Nat
  BY WritesAssumption DEF IInv
<1> DEFINE m == Head(channel)
           a == [kind |-> m.kind, arg |-> m.arg, ok |-> ok]
           S == [kind : {"write"}, arg : 1..MaxWrites, ok : BOOLEAN]
                \cup [kind : {"disconnect"}, arg : Callers, ok : BOOLEAN]
<1>1. channel \in Seq(Messages) /\ answers \in Seq(S)
  BY <1>0 DEF TypeOK, Messages, AnswersOK
<1>2. /\ m = channel[1] /\ m \in Messages
      /\ channel' \in Seq(Messages)
      /\ \A i \in Writes(channel') : i + 1 \in Writes(channel)
      /\ \A i \in Asks(channel') : i + 1 \in Asks(channel)
      /\ \A i \in 1..Len(channel') : channel'[i] = channel[i + 1]
      /\ \A i \in Asks(channel) : i # 1 => i - 1 \in Asks(channel')
      /\ m.kind = "write" => 1 \in Writes(channel)
      /\ m.kind = "disconnect" => 1 \in Asks(channel)
  BY <1>1, Taken
<1>3. a \in S /\ answers' = Append(answers, a) /\ m.kind \in {"write", "disconnect"}
  BY <1>2 DEF Answer, Messages
<1>4. /\ answers' \in Seq(S) /\ Len(answers) \in Nat
      /\ answers'[Len(answers) + 1] = a
      /\ \A i \in 1..Len(answers) : answers'[i] = answers[i]
      /\ m.kind = "write" => /\ Writes(answers') = Writes(answers) \cup {Len(answers) + 1}
                             /\ Asks(answers') = Asks(answers)
      /\ m.kind = "disconnect" => /\ Asks(answers') = Asks(answers) \cup {Len(answers) + 1}
                                  /\ Writes(answers') = Writes(answers)
  <2>1. a.kind = m.kind
    OBVIOUS
  <2> HIDE DEF a, S
  <2> QED
    BY <1>1, <1>3, <2>1, Appended
<1>5. /\ UNCHANGED <<state, subscribed, disposed, sinkClosed, added, settled, handed, poisoned,
                     phase, first, cut>>
      /\ AllSettled' = AllSettled
  BY DEF dartVars, AllSettled
<1>6. AnswersOK'
  BY <1>4 DEF AnswersOK
<1>7. CASE m.kind = "write"
  <2>1. /\ Writes(channel') = {} /\ Writes(answers) = {} /\ ~poisoned /\ settled < added
        /\ m.arg = settled + 1 /\ handed = settled + 1 /\ Len(delivered) = settled
    <3>1. /\ 1 \in Writes(channel) /\ Writes(answers) = {}
          /\ \A i \in Writes(channel) : i = 1
      BY <1>0, <1>2, <1>7 DEF OneUnderWay
    <3>2. \A i \in Writes(channel') : i + 1 = 1 /\ i \in 1..Len(channel')
      BY <1>2, <3>1 DEF Writes
    <3>3. Writes(channel') = {}
      BY <1>2, <3>2
    <3> QED
      BY <1>0, <1>2, <3>1, <3>3 DEF OneUnderWay, Sent, TypeOK
  <2>2. Writes(answers') = {Len(answers) + 1} /\ answers'[Len(answers) + 1].ok = ok
    BY <1>4, <1>7, <2>1
  <2>3. delivered' \in Seq(1..MaxWrites) /\ Sent'
    <3>1. settled + 1 \in 1..MaxWrites /\ delivered \in Seq(1..MaxWrites)
      BY <1>0, <2>1 DEF TypeOK
    <3>2. CASE ok
      <4>1. delivered' = Append(delivered, settled + 1)
        BY <1>7, <2>1, <3>2
      <4>2. /\ delivered' \in Seq(1..MaxWrites) /\ Len(delivered') = settled + 1
            /\ settled + 1 <= handed
            /\ \A i \in 1..Len(delivered') : delivered'[i] = i
        BY <1>0, <2>1, <3>1, <4>1 DEF Sent, TypeOK
      <4> QED
        BY <1>0, <1>5, <2>1, <2>2, <3>2, <4>2 DEF Sent
    <3>3. CASE ~ok
      BY <1>0, <1>5, <1>7, <2>1, <2>2, <3>1, <3>3 DEF Sent, TypeOK
    <3> QED
      BY <3>2, <3>3
  <2>4. OneUnderWay'
    BY <1>0, <1>5, <2>1, <2>2 DEF OneUnderWay
  <2>5. Fenced'
    <3>1. CASE cut = NoCut \/ entry = "none"
      BY <1>0, <1>5, <1>7, <3>1 DEF Fenced, NoCut
    <3>2. CASE cut # NoCut /\ entry # "none"
      <4>1. PICK k \in Asks(channel) : \A i \in Writes(channel) : i < k => channel[i].arg <= cut
        BY <1>0, <3>2 DEF Fenced
      <4>2. k # 1 /\ k > 1 /\ 1 \in Writes(channel)
        BY <1>2, <1>7 DEF Asks, Writes
      <4>3. settled + 1 <= cut /\ k - 1 \in Asks(channel')
        BY <1>2, <2>1, <4>1, <4>2
      <4>4. Len(delivered') <= cut
        BY <1>0, <1>7, <2>1, <4>3 DEF TypeOK
      <4> QED
        BY <1>5, <2>1, <4>3, <4>4 DEF Fenced, NoCut
    <3> QED
      BY <3>1, <3>2
  <2>6. AsksLate'
    <3>1. /\ \A i \in Asks(channel') : channel'[i] = channel[i + 1]
          /\ \A i \in Asks(answers') : i \in Asks(answers) /\ answers'[i] = answers[i]
      BY <1>2, <1>4, <1>7 DEF Asks
    <3>2. \A i \in Asks(channel') : /\ phase[channel'[i].arg] # "idle"
                                    /\ channel'[i].arg \in first => AllSettled
      BY <1>0, <1>2, <3>1 DEF AsksLate
    <3>3. \A i \in Asks(answers') : /\ phase[answers'[i].arg] # "idle"
                                    /\ answers'[i].arg \in first => AllSettled
      BY <1>0, <3>1 DEF AsksLate
    <3> QED
      BY <1>0, <1>5, <3>2, <3>3 DEF AsksLate
  <2>7. Released' /\ ReturnedIsReleased'
    BY <1>0, <1>4, <1>5, <1>7 DEF Released, ReturnedIsReleased
  <2> QED
    BY <1>2, <1>6, <2>3, <2>4, <2>5, <2>6, <2>7
<1>8. CASE m.kind = "disconnect"
  <2>1. OneUnderWay'
    <3>1. \A i \in Writes(channel') : channel'[i] = channel[i + 1] /\ i \in Nat
      BY <1>2 DEF Writes
    <3>2. \A i, j \in Writes(channel') : i = j
      BY <1>0, <1>2, <3>1 DEF OneUnderWay
    <3> QED
      <4>1. /\ Writes(channel') # {} => Writes(channel) # {}
            /\ Writes(answers') = Writes(answers)
        BY <1>2, <1>4, <1>8
      <4>2. \A i \in Writes(channel') : channel'[i].arg = settled + 1
        BY <1>0, <1>2, <3>1 DEF OneUnderWay
      <4> QED
        BY <1>0, <1>5, <3>2, <4>1, <4>2 DEF OneUnderWay
  <2>2. Sent'
    BY <1>0, <1>4, <1>5, <1>8 DEF Sent, Writes
  <2>3. Fenced' /\ Released' /\ ReturnedIsReleased'
    BY <1>0, <1>5, <1>8 DEF Fenced, Released, ReturnedIsReleased, NoCut
  <2>4. AsksLate'
    <3>1. phase[m.arg] # "idle" /\ (m.arg \in first => AllSettled)
      BY <1>0, <1>2, <1>8 DEF AsksLate
    <3> QED
      BY <1>0, <1>2, <1>4, <1>5, <1>8, <3>1 DEF AsksLate, Asks
  <2> QED
    BY <1>0, <1>2, <1>6, <1>8, <2>1, <2>2, <2>3, <2>4 DEF TypeOK
<1> QED
  BY <1>3, <1>7, <1>8

\* The plugin writes and answers, or answers that it cannot.
LEMMA HandleWriteKeepsInv ==
  ASSUME IInv, HandleWrite
  PROVE  IInv'
<1>0. /\ TypeOK /\ AnswersOK /\ OneUnderWay /\ Sent /\ Fenced /\ AsksLate
      /\ Released /\ ReturnedIsReleased /\ DropsLast /\ MaxWrites \in Nat
  BY WritesAssumption DEF IInv
<1>1. /\ channel # <<>> /\ Head(channel).kind = "write" /\ channel' = Tail(channel)
      /\ UNCHANGED <<dartVars, events, plugin, listened, entry, posted>>
      /\ \E ok \in BOOLEAN : /\ Answer(Head(channel), ok)
                             /\ delivered' = IF ok THEN Append(delivered, Head(channel).arg)
                                                   ELSE delivered
                             /\ ok => entry # "none"
  BY DEF HandleWrite
<1>2. /\ AnswersOK' /\ OneUnderWay' /\ Sent' /\ Fenced' /\ AsksLate'
      /\ Released' /\ ReturnedIsReleased'
      /\ channel' \in Seq(Messages) /\ delivered' \in Seq(1..MaxWrites)
  BY <1>0, <1>1, AnswerKeeps
<1>3. TypeOK'
  BY <1>0, <1>1, <1>2 DEF TypeOK, Messages, dartVars, NoCut
<1>4. DropsLast'
  BY <1>0, <1>1 DEF DropsLast, dartVars
<1> QED
  BY <1>2, <1>3, <1>4 DEF IInv

\* A state event posted, "connected" only by the call to listen.
LEMMA PostKeeps ==
  ASSUME TypeOK, DropsLast, NEW ev \in {"connected", "disconnected"}, Post(ev),
         listened' \in BOOLEAN, listened => listened', plugin' = plugin,
         plugin = "android" => (listened' # listened <=> ev = "connected"),
         UNCHANGED <<state, subscribed>>
  PROVE  /\ DropsLast' /\ events' \in Seq({"connected", "disconnected"})
         /\ posted' \in SUBSET {"connected", "disconnected"}
<1>0. events \in Seq({"connected", "disconnected"}) /\ posted' = posted \cup {ev}
  BY DEF TypeOK, Post
<1>1. CASE events' = events
  <2>1. events = events' /\ (ev = "connected" /\ plugin = "android" => FALSE)
    BY <1>0, <1>1 DEF Post, DropsLast, TypeOK
  <2> QED
    BY <1>0, <2>1 DEF TypeOK, DropsLast
<1>2. CASE events' # events
  <2>1. events' = Append(events, ev) /\ ev \notin posted /\ (listened' \/ plugin = "linux")
    BY <1>2 DEF Post
  <2>2. /\ events' \in Seq({"connected", "disconnected"})
        /\ Len(events) \in Nat /\ Len(events') = Len(events) + 1
        /\ events'[Len(events) + 1] = ev
        /\ \A i \in 1..Len(events) : events'[i] = events[i]
    BY <1>0, <2>1
  <2>3. DropsLast'
    <3>1. CASE ev = "connected"
      BY <1>0, <2>1, <2>2, <3>1 DEF DropsLast, TypeOK
    <3>2. CASE ev = "disconnected"
      BY <1>0, <2>1, <2>2, <3>2 DEF DropsLast, TypeOK
    <3> QED
      BY <3>1, <3>2
  <2> QED
    BY <1>0, <2>1, <2>2, <2>3 DEF TypeOK
<1> QED
  BY <1>1, <1>2

\* The plugin lets the connection go and answers.
LEMMA HandleDisconnectKeepsInv ==
  ASSUME IInv, HandleDisconnect
  PROVE  IInv'
<1>0. /\ TypeOK /\ AnswersOK /\ OneUnderWay /\ Sent /\ Fenced /\ AsksLate
      /\ Released /\ ReturnedIsReleased /\ DropsLast /\ MaxWrites \in Nat
  BY WritesAssumption DEF IInv
<1>1. /\ channel # <<>> /\ Head(channel).kind = "disconnect" /\ channel' = Tail(channel)
      /\ listened /\ entry' = "none" /\ UNCHANGED <<dartVars, plugin, listened, delivered>>
      /\ \E ok \in BOOLEAN : Answer(Head(channel), ok)
  BY DEF HandleDisconnect
<1>2. /\ AnswersOK' /\ OneUnderWay' /\ Sent' /\ Fenced' /\ AsksLate'
      /\ Released' /\ ReturnedIsReleased'
      /\ channel' \in Seq(Messages) /\ delivered' \in Seq(1..MaxWrites)
  BY <1>0, <1>1, AnswerKeeps
<1>3. /\ DropsLast' /\ events' \in Seq({"connected", "disconnected"})
      /\ posted' \in SUBSET {"connected", "disconnected"}
  <2>1. CASE entry = "none"
    <3>1. UNCHANGED <<events, posted, state, subscribed>>
      BY <1>1, <2>1 DEF HandleDisconnect, dartVars
    <3> QED
      BY <1>0, <1>1, <3>1 DEF TypeOK, DropsLast
  <2>2. CASE entry # "none"
    BY <1>0, <1>1, <2>2, PostKeeps DEF HandleDisconnect, dartVars, TypeOK
  <2> QED
    BY <2>1, <2>2
<1>4. TypeOK'
  BY <1>0, <1>1, <1>2, <1>3 DEF TypeOK, Messages, dartVars, NoCut
<1> QED
  BY <1>2, <1>3, <1>4 DEF IInv

\* What the plugin does beside the channel: an event posted, perhaps an entry gone.
LEMMA PosterKeepsInv ==
  ASSUME IInv, NEW ev \in {"connected", "disconnected"}, Post(ev),
         entry' \in {"up", "down", "none"}, entry = "none" => entry' = "none",
         listened' \in BOOLEAN, listened => listened', plugin' = plugin,
         plugin = "android" => (listened' # listened <=> ev = "connected"),
         UNCHANGED <<dartVars, channel, answers, delivered>>
  PROVE  IInv'
<1>0. /\ TypeOK /\ AnswersOK /\ OneUnderWay /\ Sent /\ Fenced /\ AsksLate
      /\ Released /\ ReturnedIsReleased /\ DropsLast /\ MaxWrites \in Nat
  BY WritesAssumption DEF IInv
<1>2. /\ DropsLast' /\ events' \in Seq({"connected", "disconnected"})
      /\ posted' \in SUBSET {"connected", "disconnected"}
  BY <1>0, PostKeeps DEF dartVars
<1>3. TypeOK'
  BY <1>0, <1>2 DEF TypeOK, dartVars, NoCut
<1>4. AnswersOK' /\ OneUnderWay' /\ Sent' /\ Fenced' /\ Released' /\ ReturnedIsReleased'
  BY <1>0 DEF AnswersOK, OneUnderWay, Sent, Fenced, Released, ReturnedIsReleased, dartVars,
     NoCut
<1>5. AsksLate'
  BY <1>0 DEF AsksLate, AllSettled, dartVars
<1> QED
  BY <1>2, <1>3, <1>4, <1>5 DEF IInv

\* The call to listen, the drops and the receiver.
LEMMA PluginKeepsInv ==
  ASSUME IInv, Listen \/ PostConnected \/ LinkDrops \/ Reap
  PROVE  IInv'
<1>0. TypeOK /\ DropsLast
  BY DEF IInv
<1>1. CASE Listen
  <2>1. CASE plugin = "linux"
    <3>1. /\ listened' = TRUE
          /\ UNCHANGED <<state, subscribed, disposed, sinkClosed, added, settled, handed, poisoned,
                         phase, first, cut, channel, answers, events, plugin, entry, posted,
                         delivered>>
      BY <1>1, <2>1 DEF Listen, dartVars
    <3>2. TypeOK' /\ AnswersOK' /\ OneUnderWay' /\ Sent' /\ Fenced' /\ Released'
      BY <3>1 DEF IInv, TypeOK, AnswersOK, OneUnderWay, Sent, Fenced, Released, NoCut
    <3>3. AsksLate' /\ ReturnedIsReleased'
      BY <3>1 DEF IInv, AsksLate, AllSettled, ReturnedIsReleased
    <3> QED
      BY <2>1, <3>1, <3>2, <3>3 DEF IInv, DropsLast
  <2>2. CASE plugin = "android"
    BY <1>0, <1>1, <2>2, PosterKeepsInv DEF Listen, TypeOK
  <2> QED
    BY <1>0, <2>1, <2>2 DEF TypeOK
<1>2. CASE PostConnected
  BY <1>0, <1>2, PosterKeepsInv DEF PostConnected, TypeOK
<1>3. CASE LinkDrops
  BY <1>0, <1>3, PosterKeepsInv DEF LinkDrops, TypeOK
<1>4. CASE Reap
  BY <1>0, <1>4, PosterKeepsInv DEF Reap, TypeOK
<1> QED
  BY <1>1, <1>2, <1>3, <1>4

\* Every step keeps the invariant.
LEMMA NextIInv == IInv /\ [Next]_vars => IInv'
<1> SUFFICES ASSUME IInv, [Next]_vars PROVE IInv'
  OBVIOUS
<1>1. CASE UNCHANGED vars
  <2>1. UNCHANGED <<state, subscribed, disposed, sinkClosed, added, settled, handed, poisoned,
                    phase, first, cut, channel, answers, events, plugin, listened, entry, posted,
                    delivered>>
    BY <1>1 DEF vars, dartVars, pluginVars
  <2> QED
    BY <2>1 DEF IInv, TypeOK, AnswersOK, OneUnderWay, Sent, Fenced, AsksLate, AllSettled,
       Released, ReturnedIsReleased, DropsLast, NoCut
<1>2. CASE Next
  BY <1>2, AddKeepsInv, WriteAnsweredKeepsInv, DisconnectAnsweredKeepsInv, DisposeKeepsInv,
     EventArrivesKeepsInv, CallFinishKeepsInv, FlushedKeepsInv, CallCloseKeepsInv,
     HandleWriteKeepsInv, HandleDisconnectKeepsInv, HandOverKeepsInv, PluginKeepsInv DEF Next
<1> QED
  BY <1>1, <1>2

\* The invariant holds in every reachable state.
LEMMA AlwaysIInv == Spec => []IInv
  BY InitIInv, NextIInv, PTL DEF Spec

\* Every variable of the connection, the channel and the plugin keeps its type.
THEOREM ConnectionTypes == Spec => []TypeOK
<1>1. IInv => TypeOK
  BY DEF IInv
<1> QED
  BY <1>1, AlwaysIInv, PTL

\* Writes reach the peer in the order of add(), without a gap.
THEOREM WritesInOrder == Spec => []DeliveredIsPrefix
<1>1. IInv => DeliveredIsPrefix
  <2> SUFFICES ASSUME IInv PROVE DeliveredIsPrefix
    OBVIOUS
  <2>1. ASSUME ~poisoned PROVE settled <= Len(delivered)
    <3>1. CASE Writes(answers) = {}
      BY <2>1, <3>1 DEF IInv, Sent, TypeOK
    <3>2. CASE Writes(answers) # {}
      BY <3>2 DEF IInv, Sent, TypeOK
    <3> QED
      BY <3>1, <3>2
  <2> QED
    BY <2>1 DEF IInv, Sent, DeliveredIsPrefix
<1> QED
  BY <1>1, AlwaysIInv, PTL

\* finish() returns only when everything written before it was received.
THEOREM FinishFlushes == Spec => []FirstFinishFlushes
<1>1. IInv => FirstFinishFlushes
  <2> SUFFICES ASSUME IInv, NEW c \in first, phase[c] = "finished" PROVE Len(delivered) = added
    BY DEF FirstFinishFlushes
  <2>1. AllSettled
    BY DEF IInv, AsksLate
  <2>2. Writes(answers) = {}
    BY <2>1 DEF IInv, OneUnderWay, AllSettled, TypeOK
  <2> QED
    BY <2>1, <2>2 DEF IInv, Sent, AllSettled
<1> QED
  BY <1>1, AlwaysIInv, PTL

\* close() lets no write out that was not handed over before it.
THEOREM PendingDiscarded == Spec => []CloseDiscards
<1>1. IInv => CloseDiscards
  BY DEF IInv, Fenced, CloseDiscards
<1> QED
  BY <1>1, AlwaysIInv, PTL

\* A finish() or close() that returned has released the native connection.
THEOREM NothingLeftOpen == Spec => []ReturnedIsReleased
<1>1. IInv => ReturnedIsReleased
  BY DEF IInv
<1> QED
  BY <1>1, AlwaysIInv, PTL

\* A connection that Android's plugin reported gone is not reported connected again.
THEOREM GoneStaysGone == Spec => DeadStaysDead
<1>1. IInv /\ [Next]_vars
         => [plugin = "android" /\ state = "disconnected" => state' # "connected"]_vars
  <2> SUFFICES ASSUME IInv, Next, plugin = "android", state = "disconnected"
               PROVE  state' # "connected"
    BY DEF vars
  <2>1. CASE EventArrives
    <3>1. subscribed => Head(events) # "connected"
      <4>1. events \in Seq({"connected", "disconnected"}) /\ events # <<>>
        BY <2>1 DEF EventArrives, IInv, TypeOK
      <4>2. Head(events) = events[1] /\ 1 \in 1..Len(events)
        BY <4>1
      <4> QED
        BY <4>2 DEF IInv, DropsLast
    <3> QED
      BY <2>1, <3>1 DEF EventArrives
  <2>2. CASE ~EventArrives
    BY <2>2 DEF Next, Add, HandOver, WriteAnswered, DisconnectAnswered, Dispose, CallFinish,
       Flushed, CallClose, Listen, HandleWrite, HandleDisconnect, PostConnected, LinkDrops, Reap,
       dartVars
  <2> QED
    BY <2>1, <2>2
<1> QED
  BY <1>1, AlwaysIInv, PTL DEF Spec, DeadStaysDead
=============================================================================
