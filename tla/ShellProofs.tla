---------------------------- MODULE ShellProofs ----------------------------
(***************************************************************************)
(* Safety of pa1.c and of the drafts prompt.c, cd.c, external.c and for.c, *)
(* for every set of scripts, every number of lines and of programs run:    *)
(* the alarm only hits the program it was set for, no program is left      *)
(* behind, and the lines of the input are executed in order.               *)
(***************************************************************************)
EXTENDS ShellDrafts, SequenceTheorems, TLAPS

Child ==
    [line : Nat, state : {"new", "running", "zombie", "reaped"}, killed : BOOLEAN, ahead : {0}]

(* What the proofs need of the types; no child owns input read ahead.      *)
ShapeOK ==
    /\ script \in Seq(Line)
    /\ line \in 0 .. Len(script)
    /\ handled \in BOOLEAN
    /\ children \in Seq(Child)

(* The lines that are read ahead are the ones after the current line, and  *)
(* the offset is behind the last line that was read.                       *)
Rest == [i \in 1 .. Len(script) - line |-> line + i]

InputInOrder ==
    \/ buffer = <<>> /\ offset = line
    \/ buffer = Rest /\ offset = Len(script)

(* Between fork and waitpid, pid is the child forked last; the handler is  *)
(* there before the alarm.                                                 *)
AlarmInv ==
    /\ alarm # NoChild => handled /\ alarm = pid /\ pc \in {"wait", "disarm"}
    /\ pc \in {"armed", "wait"} /\ version = "pa1" => handled
    /\ pc \in {"arm", "armed", "wait"} /\ version = "pa1" =>
          pid \in DOMAIN children /\ pid = Len(children)
    /\ pc # "killed"

(* The drafts before problem.c set no alarm and kill nobody.               *)
NoAlarms ==
    version # "pa1" =>
        /\ alarm = NoChild
        /\ pc \notin {"fork", "arm", "armed"}
        /\ \A c \in DOMAIN children : ~children[c].killed

Settled(c) == children[c].state = "reaped" \/ children[c].killed

(* All programs have been waited for or killed, but for the one forked     *)
(* last, until it is waited for.                                           *)
LeftInv ==
    \A c \in DOMAIN children :
        Settled(c) \/ (c = Len(children) /\ pc \in {"arm", "armed", "wait"})

SafeInv == ShapeOK /\ InputInOrder /\ AlarmInv /\ NoAlarms /\ LeftInv

IInv == version \in Versions /\ (version # "problem" => SafeInv)

-----------------------------------------------------------------------------

LEMMA InitIInv == DraftsInit => IInv
<1> SUFFICES ASSUME DraftsInit PROVE IInv
  OBVIOUS
<1>1. script \in Seq(Line) /\ Len(script) \in Nat
  BY ScriptsAssumption DEF DraftsInit, Init
<1>2. children = <<>> /\ children \in Seq(Child) /\ DOMAIN children = {}
  BY DEF DraftsInit, Init
<1>3. InputInOrder
  BY DEF DraftsInit, Init, InputInOrder
<1>4. ShapeOK
  <2>1. handled \in BOOLEAN
    BY Zenon DEF DraftsInit, Init
  <2> QED
    BY <1>1, <1>2, <2>1 DEF DraftsInit, Init, ShapeOK
<1>5. AlarmInv /\ NoAlarms /\ LeftInv
  BY <1>2 DEF DraftsInit, Init, AlarmInv, NoAlarms, LeftInv, NoChild
<1> QED
  BY <1>3, <1>4, <1>5 DEF DraftsInit, IInv, SafeInv

(* With nothing read ahead, the file holds exactly the lines to come.      *)
LEMMA WhatIsAhead ==
    ASSUME SafeInv
    PROVE  /\ Len(script) \in Nat /\ Rest \in Seq(Nat) /\ Len(Rest) = Len(script) - line
           /\ buffer = <<>> => [i \in 1 .. Len(script) - offset |-> offset + i] = Rest
           /\ buffer # <<>> => buffer = Rest /\ offset = Len(script)
<1>1. script \in Seq(Line) /\ Len(script) \in Nat /\ line \in 0 .. Len(script)
  BY DEF SafeInv, ShapeOK
<1>2. Rest \in Seq(Nat) /\ Len(Rest) = Len(script) - line
  <2>1. Len(script) - line \in Nat
    BY <1>1
  <2>2. \A i \in 1 .. Len(script) - line : line + i \in Nat
    BY <1>1
  <2>3. Rest \in [1 .. Len(script) - line -> Nat]
    BY <2>2 DEF Rest
  <2> QED
    BY <2>1, <2>3, LenProperties
<1>3. ASSUME buffer = <<>>
      PROVE  [i \in 1 .. Len(script) - offset |-> offset + i] = Rest
  <2>1. CASE offset = line
    BY <2>1 DEF Rest
  <2>2. CASE buffer = Rest /\ offset = Len(script)
    <3>1. Len(script) - line = 0
      BY <2>2, <1>2, <1>3
    <3> QED
      BY <3>1, <1>1, <2>2 DEF Rest
  <2> QED
    BY <2>1, <2>2 DEF SafeInv, InputInOrder
<1> QED
  BY <1>1, <1>2, <1>3 DEF SafeInv, InputInOrder

(* What Read does to the line: it moves on to the next one.                *)
LEMMA ReadMovesOn ==
    ASSUME SafeInv, Read
    PROVE  /\ \/ pc' = "end" /\ UNCHANGED <<offset, buffer, line>>
              \/ /\ pc' = "for" /\ line' = line + 1 /\ line < Len(script)
                 /\ buffer' = Tail(Rest) /\ offset' = Len(script)
           /\ pc = "read"
           /\ UNCHANGED <<script, repeat, timeout, handled, pid, alarm, children>>
<1> DEFINE ahead == IF buffer = <<>>
                    THEN [i \in 1 .. (Len(script) - offset) |-> offset + i]
                    ELSE buffer
<1>1. ahead = Rest
  BY WhatIsAhead
<1>2. line \in 0 .. Len(script) /\ Len(script) \in Nat
  BY WhatIsAhead DEF SafeInv, ShapeOK
<1>3. CASE Rest = <<>>
  BY <1>1, <1>3 DEF Read
<1>4. CASE Rest # <<>>
  <2>1. /\ line' = Head(Rest) /\ buffer' = Tail(Rest) /\ pc' = "for"
        /\ offset' = IF buffer = <<>> THEN Len(script) ELSE offset
    BY <1>1, <1>4 DEF Read
  <2>2. Len(Rest) # 0
    BY <1>4, WhatIsAhead, EmptySeq
  <2>3. line < Len(script)
    BY <2>2, <1>2, WhatIsAhead
  <2>4. Head(Rest) = line + 1
    BY <2>3, <1>2 DEF Rest
  <2>5. offset' = Len(script)
    BY <2>1, WhatIsAhead
  <2> QED
    BY <2>1, <2>3, <2>4, <2>5 DEF Read
<1> QED
  BY <1>3, <1>4

LEMMA ReadKeepsSafeInv ==
    ASSUME SafeInv, Read, UNCHANGED version
    PROVE  SafeInv'
<1>1. line \in 0 .. Len(script) /\ Len(script) \in Nat /\ script' = script
  BY WhatIsAhead, ReadMovesOn DEF SafeInv, ShapeOK
<1>2. ShapeOK'
  BY <1>1, ReadMovesOn DEF SafeInv, ShapeOK
<1>3. InputInOrder'
  <2>1. CASE UNCHANGED <<offset, buffer, line>>
    BY <2>1, <1>1 DEF SafeInv, InputInOrder, Rest
  <2>2. CASE /\ line' = line + 1 /\ line < Len(script)
             /\ buffer' = Tail(Rest) /\ offset' = Len(script)
    <3>1. Tail(Rest) = [i \in 1 .. Len(script) - (line + 1) |-> (line + 1) + i]
      <4> DEFINE next == [i \in 1 .. Len(script) - (line + 1) |-> (line + 1) + i]
      <4>1. Rest \in Seq(Nat) /\ Rest # <<>> /\ Len(Rest) = Len(script) - line
        BY <1>1, <2>2, WhatIsAhead
      <4>2. /\ Tail(Rest) \in Seq(Nat) /\ Len(Tail(Rest)) = Len(script) - (line + 1)
            /\ \A i \in 1 .. Len(Tail(Rest)) : Tail(Rest)[i] = Rest[i + 1]
        BY <4>1, <1>1, HeadTailProperties
      <4>3. \A i \in 1 .. Len(script) - (line + 1) : Rest[i + 1] = (line + 1) + i
        BY <1>1 DEF Rest
      <4>4. next \in Seq(Nat) /\ Len(next) = Len(script) - (line + 1)
        <5>1. next \in [1 .. Len(script) - (line + 1) -> Nat]
          BY <1>1
        <5> QED
          BY <5>1, <1>1, <2>2, LenProperties
      <4>5. \A i \in 1 .. Len(next) : Tail(Rest)[i] = next[i]
        BY <4>2, <4>3, <4>4
      <4> QED
        BY <4>2, <4>4, <4>5, SeqEqual
    <3> QED
      BY <3>1, <2>2, <1>1 DEF InputInOrder, Rest
  <2> QED
    BY <2>1, <2>2, ReadMovesOn
<1>4. AlarmInv' /\ NoAlarms'
  BY ReadMovesOn DEF SafeInv, AlarmInv, NoAlarms
<1>5. LeftInv'
  BY ReadMovesOn DEF SafeInv, LeftInv, Settled
<1> QED
  BY <1>2, <1>3, <1>4, <1>5 DEF SafeInv

(* A step of the shell outside of a program only moves pc.                 *)
LEMMA QuietStepKeepsSafeInv ==
    ASSUME SafeInv, pc \in {"for", "command"},
           pc' \notin {"arm", "armed", "wait", "killed"},
           pc' = "fork" => version = "pa1",
           UNCHANGED <<script, offset, buffer, line, handled, pid, alarm, children, version>>
    PROVE  SafeInv'
<1>1. ShapeOK' /\ InputInOrder'
  BY DEF SafeInv, ShapeOK, InputInOrder, Rest
<1>2. AlarmInv' /\ NoAlarms'
  BY DEF SafeInv, AlarmInv, NoAlarms
<1>3. LeftInv'
  BY DEF SafeInv, LeftInv, Settled
<1> QED
  BY <1>1, <1>2, <1>3 DEF SafeInv

LEMMA SkipForKeepsSafeInv ==
    ASSUME SafeInv, SkipFor, UNCHANGED version
    PROVE  SafeInv'
BY QuietStepKeepsSafeInv DEF SkipFor

LEMMA ForKeepsSafeInv ==
    ASSUME SafeInv, For, UNCHANGED version
    PROVE  SafeInv'
<1>1. pc' \in {"segv", "command"}
  BY DEF For
<1> QED
  BY <1>1, QuietStepKeepsSafeInv DEF For

LEMMA BuiltinKeepsSafeInv ==
    ASSUME SafeInv, NEW crashes, pc = "command", Builtin(crashes), UNCHANGED version
    PROVE  SafeInv'
BY QuietStepKeepsSafeInv DEF Builtin

LEMMA LeaveKeepsSafeInv ==
    ASSUME SafeInv, Leave, UNCHANGED version
    PROVE  SafeInv'
BY QuietStepKeepsSafeInv DEF Leave

LEMMA RunCommandKeepsSafeInv ==
    ASSUME SafeInv, RunCommand, version = "pa1", UNCHANGED version
    PROVE  SafeInv'
<1>1. pc' \in {"read", "end", "segv", "fork", "command"} /\ pc = "command"
  BY DEF RunCommand
<1> QED
  BY <1>1, QuietStepKeepsSafeInv DEF RunCommand

-----------------------------------------------------------------------------
(* fork, with what fflush gives back.                                      *)

LEMMA FlushKeepsInput ==
    ASSUME SafeInv, offset' = offset - Len(buffer), buffer' = <<>>, line' = line
    PROVE  InputInOrder'
<1>1. line \in Nat /\ Len(script) \in Nat
  BY WhatIsAhead DEF SafeInv, ShapeOK
<1>2. CASE buffer = <<>> /\ offset = line
  BY <1>1, <1>2, EmptySeq DEF InputInOrder
<1>3. CASE buffer = Rest /\ offset = Len(script)
  BY <1>1, <1>3, WhatIsAhead DEF InputInOrder
<1> QED
  BY <1>2, <1>3 DEF SafeInv, InputInOrder

(* The child that fork makes owns nothing of the input.                    *)
LEMMA ForkedChild ==
    ASSUME SafeInv, children' = Append(children, NewChild(0))
    PROVE  /\ Len(children) \in Nat /\ DOMAIN children = 1 .. Len(children)
           /\ children' \in Seq(Child) /\ Len(children') = Len(children) + 1
           /\ DOMAIN children' = 1 .. Len(children) + 1
           /\ \A c \in DOMAIN children : children'[c] = children[c]
           /\ children'[Len(children) + 1] = NewChild(0)
<1>1. children \in Seq(Child) /\ NewChild(0) \in Child
  BY WhatIsAhead DEF SafeInv, ShapeOK, NewChild, Child
<1>2. Len(children) \in Nat /\ DOMAIN children = 1 .. Len(children)
  BY <1>1, LenProperties
<1> QED
  BY <1>1, <1>2, AppendProperties, LenProperties

LEMMA ForkKeepsSafeInv ==
    ASSUME SafeInv, Fork, version = "pa1", UNCHANGED version
    PROVE  SafeInv'
<1>1. ShapeOK'
  <2>1. children' \in Seq(Child)
    BY ForkedChild DEF Fork, SafeInv, ShapeOK
  <2> QED
    BY <2>1 DEF Fork, SafeInv, ShapeOK
<1>2. InputInOrder'
  BY FlushKeepsInput DEF Fork
<1>3. alarm' = NoChild /\ pc = "fork"
  BY DEF Fork, SafeInv, AlarmInv
<1>4. \A c \in DOMAIN children : Settled(c)
  BY <1>3 DEF SafeInv, LeftInv
<1>5. CASE /\ children' = Append(children, NewChild(0))
           /\ pid' = Len(children) + 1 /\ pc' = "arm"
  <2>1. AlarmInv'
    BY <1>3, <1>5, ForkedChild DEF AlarmInv
  <2>2. LeftInv'
    BY <1>4, <1>5, ForkedChild DEF LeftInv, Settled
  <2> QED
    BY <2>1, <2>2, <1>1, <1>2 DEF SafeInv, NoAlarms
<1>6. CASE pc' = "disarm" /\ UNCHANGED children
  <2>1. AlarmInv' /\ LeftInv'
    BY <1>3, <1>4, <1>6 DEF AlarmInv, LeftInv, Settled
  <2> QED
    BY <2>1, <1>1, <1>2 DEF SafeInv, NoAlarms
<1> QED
  BY <1>5, <1>6 DEF Fork

LEMMA ForkUncheckedKeepsSafeInv ==
    ASSUME SafeInv, ForkUnchecked, version # "pa1", UNCHANGED version
    PROVE  SafeInv'
<1>1. ShapeOK'
  <2>1. children' \in Seq(Child)
    BY ForkedChild DEF ForkUnchecked, SafeInv, ShapeOK
  <2> QED
    BY <2>1 DEF ForkUnchecked, SafeInv, ShapeOK
<1>2. InputInOrder'
  BY FlushKeepsInput DEF ForkUnchecked
<1>3. alarm' = NoChild /\ pc = "command" /\ pc' = "wait"
  BY DEF ForkUnchecked, AtCommand, SafeInv, NoAlarms
<1>4. \A c \in DOMAIN children : Settled(c) /\ ~children[c].killed
  BY <1>3 DEF SafeInv, LeftInv, NoAlarms
<1>5. AlarmInv'
  BY <1>3 DEF AlarmInv
<1>6. CASE children' = Append(children, NewChild(0))
  <2>1. NewChild(0).killed = FALSE
    BY DEF NewChild
  <2>2. NoAlarms'
    BY <2>1, <1>3, <1>4, <1>6, ForkedChild DEF NoAlarms
  <2>3. LeftInv'
    BY <1>3, <1>4, <1>6, ForkedChild DEF LeftInv, Settled
  <2> QED
    BY <2>2, <2>3, <1>1, <1>2, <1>5 DEF SafeInv
<1>7. CASE UNCHANGED children
  BY <1>1, <1>2, <1>3, <1>4, <1>5, <1>7 DEF SafeInv, NoAlarms, LeftInv, Settled
<1> QED
  BY <1>6, <1>7 DEF ForkUnchecked

-----------------------------------------------------------------------------
(* From fork to the next command.                                          *)

LEMMA ArmKeepsSafeInv ==
    ASSUME SafeInv, Arm, version = "pa1", UNCHANGED version
    PROVE  SafeInv'
<1>1. ShapeOK' /\ InputInOrder'
  <2>1. handled' \in BOOLEAN
    BY Zenon DEF Arm, SafeInv, ShapeOK
  <2> QED
    BY <2>1 DEF Arm, SafeInv, ShapeOK, InputInOrder, Rest
<1>2. AlarmInv'
  <2>1. CASE pc = "arm"
    BY <2>1 DEF Arm, SafeInv, AlarmInv
  <2>2. CASE pc = "armed"
    BY <2>2 DEF Arm, SetAlarm, SafeInv, AlarmInv
  <2> QED
    BY <2>1, <2>2 DEF Arm
<1>3. LeftInv' /\ NoAlarms'
  BY DEF Arm, SafeInv, LeftInv, Settled, NoAlarms
<1> QED
  BY <1>1, <1>2, <1>3 DEF SafeInv

LEMMA DoneKeepsSafeInv ==
    ASSUME SafeInv, Done, version # "pa1", UNCHANGED version
    PROVE  SafeInv'
<1>1. ShapeOK' /\ InputInOrder'
  BY DEF Done, SafeInv, ShapeOK, InputInOrder, Rest
<1>2. AlarmInv' /\ NoAlarms' /\ LeftInv'
  BY DEF Done, SafeInv, AlarmInv, NoAlarms, LeftInv, Settled
<1> QED
  BY <1>1, <1>2 DEF SafeInv

LEMMA DisarmKeepsSafeInv ==
    ASSUME SafeInv, Disarm, version = "pa1", UNCHANGED version
    PROVE  SafeInv'
<1>1. ShapeOK' /\ InputInOrder'
  BY DEF Disarm, SafeInv, ShapeOK, InputInOrder, Rest
<1>2. AlarmInv' /\ NoAlarms' /\ LeftInv'
  BY DEF Disarm, SafeInv, AlarmInv, NoAlarms, LeftInv, Settled
<1> QED
  BY <1>1, <1>2 DEF SafeInv

(* The state of one child moves on.                                        *)
LEMMA OneChildMoves ==
    ASSUME SafeInv, NEW c \in DOMAIN children, NEW s \in {"running", "zombie", "reaped"},
           children' = [children EXCEPT ![c].state = s]
    PROVE  /\ children' \in Seq(Child) /\ Len(children') = Len(children)
           /\ DOMAIN children' = DOMAIN children
           /\ Len(children) \in Nat /\ DOMAIN children = 1 .. Len(children)
           /\ children'[c].state = s /\ children'[c].killed = children[c].killed
           /\ \A d \in DOMAIN children : d # c => children'[d] = children[d]
<1>1. children \in Seq(Child) /\ c \in 1 .. Len(children)
  BY LenProperties DEF SafeInv, ShapeOK
<1>2. children[c] \in Child
  BY <1>1, ElementOfSeq
<1> DEFINE moved == [children[c] EXCEPT !.state = s]
<1>3. moved \in Child /\ moved.state = s /\ moved.killed = children[c].killed
  BY <1>2 DEF Child
<1>4. children' = [children EXCEPT ![c] = moved]
  OBVIOUS
<1> HIDE DEF moved
<1> QED
  BY <1>1, <1>3, <1>4, ExceptSeq, LenProperties

(* When every program but the last has settled and the last is reaped, all *)
(* have settled.                                                           *)
LEMMA ReapKeepsSafeInv ==
    ASSUME SafeInv, Reap, version = "pa1", UNCHANGED version
    PROVE  SafeInv'
<1>1. /\ pc = "wait" /\ pc' = "disarm" /\ pid \in DOMAIN children /\ pid = Len(children)
      /\ children' = [children EXCEPT ![pid].state = "reaped"]
  BY DEF Reap, SafeInv, AlarmInv
<1>2. ShapeOK' /\ InputInOrder'
  BY <1>1, OneChildMoves DEF Reap, SafeInv, ShapeOK, InputInOrder, Rest
<1>3. AlarmInv' /\ NoAlarms'
  BY <1>1 DEF Reap, SafeInv, AlarmInv, NoAlarms
<1>4. LeftInv'
  <2>1. \A c \in DOMAIN children : c # pid => Settled(c)
    BY <1>1 DEF SafeInv, LeftInv
  <2> QED
    BY <2>1, <1>1, OneChildMoves DEF LeftInv, Settled
<1> QED
  BY <1>2, <1>3, <1>4 DEF SafeInv

(* In the drafts a dead program can only be the last one.                  *)
LEMMA WaitAnyKeepsSafeInv ==
    ASSUME SafeInv, WaitAny, version # "pa1", UNCHANGED version
    PROVE  SafeInv'
<1>1. pc = "wait" /\ pc' = "disarm" /\ alarm' = NoChild
  BY DEF WaitAny, SafeInv, NoAlarms
<1>2. AlarmInv'
  BY <1>1 DEF AlarmInv
<1>3. ASSUME NEW c \in DOMAIN children, children[c].state = "zombie",
             children' = [children EXCEPT ![c].state = "reaped"]
      PROVE  SafeInv'
  <2>1. ShapeOK' /\ InputInOrder'
    BY <1>3, OneChildMoves DEF WaitAny, SafeInv, ShapeOK, InputInOrder, Rest
  <2>2. NoAlarms'
    BY <1>1, <1>3, OneChildMoves DEF SafeInv, NoAlarms
  <2>3. LeftInv'
    <3>1. c = Len(children) /\ \A d \in DOMAIN children : d # c => Settled(d)
      BY <1>3 DEF SafeInv, LeftInv, NoAlarms, Settled
    <3> QED
      BY <3>1, <1>3, OneChildMoves DEF LeftInv, Settled
  <2> QED
    BY <2>1, <2>2, <2>3, <1>2 DEF SafeInv
<1>4. ASSUME \A c \in DOMAIN children : children[c].state = "reaped", UNCHANGED children
      PROVE  SafeInv'
  <2>1. ShapeOK' /\ InputInOrder'
    BY <1>4 DEF WaitAny, SafeInv, ShapeOK, InputInOrder, Rest
  <2>2. NoAlarms' /\ LeftInv'
    BY <1>1, <1>4 DEF SafeInv, NoAlarms, LeftInv, Settled
  <2> QED
    BY <2>1, <2>2, <1>2 DEF SafeInv
<1> QED
  BY <1>3, <1>4 DEF WaitAny

-----------------------------------------------------------------------------
(* The alarm.                                                              *)

(* kill leaves the children as they are but for the one it kills.          *)
LEMMA KilledChildren ==
    ASSUME SafeInv, children' = Killed
    PROVE  /\ children' \in Seq(Child) /\ Len(children') = Len(children)
           /\ DOMAIN children' = DOMAIN children
           /\ \A c \in DOMAIN children :
                /\ children'[c].state = children[c].state
                /\ children[c].killed => children'[c].killed
                /\ c = pid /\ Alive(c) => children'[c].killed
<1>1. /\ children \in Seq(Child) /\ Len(children) \in Nat
      /\ DOMAIN children = 1 .. Len(children)
  BY LenProperties DEF SafeInv, ShapeOK
<1>2. \A c \in DOMAIN children : children[c] \in Child
  BY <1>1, ElementOfSeq
<1>3. \A c \in DOMAIN children :
        children'[c] =
          [children[c] EXCEPT !.killed = @ \/ (Alive(c) /\ pid \in {c, ForkFailed})]
  BY DEF Killed
<1>4. ASSUME NEW c \in DOMAIN children
      PROVE  /\ children'[c] \in Child
             /\ children'[c].state = children[c].state
             /\ children[c].killed => children'[c].killed
             /\ c = pid /\ Alive(c) => children'[c].killed
  <2> DEFINE hit == children[c].killed \/ (Alive(c) /\ pid \in {c, ForkFailed})
  <2>1. children'[c] = [children[c] EXCEPT !.killed = hit]
    BY <1>3, Zenon
  <2>2. hit \in BOOLEAN
    BY <1>2 DEF Child
  <2>3. (children[c].killed => hit) /\ (c = pid /\ Alive(c) => hit)
    OBVIOUS
  <2> HIDE DEF hit
  <2>4. /\ children'[c] \in Child /\ children'[c].state = children[c].state
        /\ children'[c].killed = hit
    BY <1>2, <2>1, <2>2 DEF Child
  <2> QED
    BY <2>3, <2>4, Zenon
<1>5. children' \in [1 .. Len(children) -> Child]
  <2>1. children' = [c \in 1 .. Len(children) |-> children'[c]]
    BY <1>1 DEF Killed
  <2> QED
    BY <2>1, <1>1, <1>4
<1>6. children' \in Seq(Child) /\ Len(children') = Len(children)
  BY <1>1, <1>5, LenProperties
<1> QED
  BY <1>1, <1>4, <1>5, <1>6

(* A program that was waited for when the alarm went off is killed.        *)
LEMMA TimeoutKeepsSafeInv ==
    ASSUME SafeInv, TimeoutHandler, UNCHANGED version
    PROVE  SafeInv'
<1>1. /\ alarm # NoChild /\ handled /\ alarm' = NoChild /\ version = "pa1"
      /\ pc \in {"wait", "disarm"} /\ children' = Killed
  BY DEF TimeoutHandler, GoOff, SafeInv, AlarmInv, NoAlarms
<1>2. /\ pc' = pc \/ (pc = "wait" /\ Alive(pid) /\ pc' = "disarm")
      /\ UNCHANGED <<script, offset, buffer, line, repeat, timeout, handled, pid>>
  BY <1>1 DEF TimeoutHandler, GoOff
<1>3. ShapeOK' /\ InputInOrder'
  BY <1>1, <1>2, KilledChildren DEF SafeInv, ShapeOK, InputInOrder, Rest
<1>4. AlarmInv' /\ NoAlarms'
  BY <1>1, <1>2, KilledChildren DEF SafeInv, AlarmInv, NoAlarms
<1>5. LeftInv'
  <2>1. ASSUME NEW c \in DOMAIN children
        PROVE  Settled(c) => Settled(c)'
    BY <2>1, <1>1, KilledChildren DEF Settled
  <2>2. CASE pc' = pc
    BY <2>1, <2>2, <1>1, KilledChildren DEF SafeInv, LeftInv
  <2>3. CASE pc = "wait" /\ Alive(pid) /\ pc' = "disarm"
    <3>1. pid \in DOMAIN children /\ pid = Len(children)
      BY <2>3, <1>1 DEF SafeInv, AlarmInv
    <3>2. Settled(pid)'
      BY <3>1, <2>3, <1>1, <1>2, KilledChildren DEF Settled
    <3> QED
      BY <3>1, <3>2, <2>1, <1>1, <1>2, KilledChildren DEF SafeInv, LeftInv
  <2> QED
    BY <2>2, <2>3, <1>2
<1> QED
  BY <1>3, <1>4, <1>5 DEF SafeInv

-----------------------------------------------------------------------------
(* The children.                                                           *)

LEMMA ChildMoveKeepsSafeInv ==
    ASSUME SafeInv, NEW c \in DOMAIN children, NEW s \in {"running", "zombie"},
           children[c].state # "reaped",
           children' = [children EXCEPT ![c].state = s],
           UNCHANGED <<script, offset, buffer, pc, line, repeat, timeout, handled, pid, alarm>>,
           UNCHANGED version
    PROVE  SafeInv'
<1>1. ShapeOK' /\ InputInOrder'
  BY OneChildMoves DEF SafeInv, ShapeOK, InputInOrder, Rest
<1>2. AlarmInv'
  BY OneChildMoves DEF SafeInv, AlarmInv
<1>3. NoAlarms'
  BY OneChildMoves DEF SafeInv, NoAlarms
<1>4. LeftInv'
  <2>1. \A d \in DOMAIN children : Settled(d) => Settled(d)'
    BY OneChildMoves DEF Settled
  <2> QED
    BY <2>1, OneChildMoves DEF SafeInv, LeftInv
<1> QED
  BY <1>1, <1>2, <1>3, <1>4 DEF SafeInv

(* A child that cannot be executed gives nothing back to the file.         *)
LEMMA ExecLeavesInput ==
    ASSUME SafeInv, NEW c \in DOMAIN children, Exec(c)
    PROVE  offset' = offset
<1>1. children \in Seq(Child) /\ c \in 1 .. Len(children)
  BY LenProperties DEF SafeInv, ShapeOK
<1>2. children[c].ahead = 0
  <2>1. children[c] \in Child
    BY <1>1, ElementOfSeq
  <2> QED
    BY <2>1 DEF Child
<1>3. offset \in Int
  BY WhatIsAhead DEF SafeInv, ShapeOK, InputInOrder
<1> QED
  BY <1>2, <1>3 DEF Exec

LEMMA ChildStepKeepsSafeInv ==
    ASSUME SafeInv, ChildStep, UNCHANGED version
    PROVE  SafeInv'
<1>1. PICK c \in DOMAIN children : Exec(c) \/ Die(c)
  BY DEF ChildStep
<1>2. CASE Exec(c)
  <2>1. PICK s \in {"running", "zombie"} : children' = [children EXCEPT ![c].state = s]
    BY <1>2 DEF Exec
  <2> QED
    BY <1>2, <2>1, ExecLeavesInput, ChildMoveKeepsSafeInv DEF Exec
<1>3. CASE Die(c)
  BY <1>3, ChildMoveKeepsSafeInv DEF Die, Alive
<1> QED
  BY <1>1, <1>2, <1>3

-----------------------------------------------------------------------------
(* The theorems.                                                           *)

LEMMA DraftStepKeepsSafeInv ==
    ASSUME SafeInv, version \in Versions \ {"problem"}, DraftStep, UNCHANGED version
    PROVE  SafeInv'
<1>1. CASE version = "prompt" /\ (prompt_main \/ prompt_run_command)
  BY <1>1, ReadKeepsSafeInv, SkipForKeepsSafeInv, LeaveKeepsSafeInv, BuiltinKeepsSafeInv
     DEF prompt_main, prompt_run_command, AtCommand
<1>2. CASE version = "cd" /\ (cd_main \/ cd_run_command)
  BY <1>2, ReadKeepsSafeInv, SkipForKeepsSafeInv, LeaveKeepsSafeInv, BuiltinKeepsSafeInv
     DEF cd_main, cd_run_command, AtCommand
<1>3. CASE version = "external" /\ (external_main \/ external_run_command)
  BY <1>3, ReadKeepsSafeInv, SkipForKeepsSafeInv, LeaveKeepsSafeInv, BuiltinKeepsSafeInv,
     ForkUncheckedKeepsSafeInv, WaitAnyKeepsSafeInv, DoneKeepsSafeInv
     DEF external_main, external_run_command, AtCommand
<1>4. CASE version = "for" /\ (for_main \/ for_run_command)
  BY <1>4, ReadKeepsSafeInv, ForKeepsSafeInv, LeaveKeepsSafeInv, BuiltinKeepsSafeInv,
     ForkUncheckedKeepsSafeInv, WaitAnyKeepsSafeInv, DoneKeepsSafeInv
     DEF for_main, for_run_command, AtCommand, AtNestedExit
<1>5. CASE version = "pa1" /\ ShellStep
  BY <1>5, ReadKeepsSafeInv, ForKeepsSafeInv, RunCommandKeepsSafeInv, ForkKeepsSafeInv,
     ArmKeepsSafeInv, ReapKeepsSafeInv, DisarmKeepsSafeInv DEF ShellStep
<1> QED
  BY <1>1, <1>2, <1>3, <1>4, <1>5 DEF DraftStep

LEMMA NextKeepsIInv == IInv /\ [DraftsNext]_draftVars => IInv'
<1> SUFFICES ASSUME IInv, [DraftsNext]_draftVars PROVE IInv'
  OBVIOUS
<1>1. version' = version /\ version \in Versions
  BY DEF DraftsNext, draftVars, IInv
<1>2. CASE version = "problem"
  BY <1>1, <1>2 DEF IInv
<1>3. CASE version # "problem"
  <2>1. SafeInv
    BY <1>3 DEF IInv
  <2>2. CASE DraftsNext
    <3>1. DraftStep \/ TimeoutHandler \/ ChildStep
      BY <2>2, <1>3 DEF DraftsNext, AlarmStep
    <3> QED
      BY <3>1, <2>1, <1>1, <1>3, DraftStepKeepsSafeInv, TimeoutKeepsSafeInv,
         ChildStepKeepsSafeInv DEF IInv
  <2>3. CASE UNCHANGED draftVars
    BY <2>1, <2>3, <1>1 DEF draftVars, vars, IInv, SafeInv, ShapeOK, InputInOrder, Rest,
       AlarmInv, NoAlarms, LeftInv, Settled
  <2> QED
    BY <2>2, <2>3
<1> QED
  BY <1>2, <1>3

THEOREM IInvAlways == DraftsSpec => []IInv
<1>1. DraftsInit => IInv
  BY InitIInv
<1>2. IInv /\ [DraftsNext]_draftVars => IInv'
  BY NextKeepsIInv
<1> QED
  BY <1>1, <1>2, PTL DEF DraftsSpec

(* No alarm hits the shell, a later program or everybody, whatever the     *)
(* scripts and the order of the alarm and the program's end.               *)
THEOREM AlarmsAreSafeAlways == DraftsSpec => []AlarmsAreSafe
<1>1. IInv => AlarmsAreSafe
  BY DEF IInv, SafeInv, AlarmInv, AlarmsAreSafe, AlarmIsOfItsChild
<1> QED
  BY <1>1, IInvAlways, PTL

(* No shell goes on to the next command and leaves a program behind that   *)
(* it has neither waited for nor killed.                                   *)
THEOREM NobodyIsLeftAlways == DraftsSpec => []NobodyIsLeft
<1>1. IInv => NobodyIsLeft
  BY DEF IInv, SafeInv, LeftInv, Settled, NobodyIsLeft, OnlyKilledAreLeft
<1> QED
  BY <1>1, IInvAlways, PTL

(* The only step that changes the line is Read.                            *)
LEMMA OnlyReadChangesLine ==
    ASSUME DraftsNext, ~Read
    PROVE  line' = line
<1>1. CASE DraftStep
  BY <1>1 DEF DraftStep, prompt_main, prompt_run_command, cd_main, cd_run_command,
     external_main, external_run_command, for_main, for_run_command,
     problem_main, problem_run_command, problem_fork, ShellStep, SkipFor, Builtin, Leave,
     WaitAny, Done, ForkUnchecked, For, RunCommand, Fork, Arm, ArmFirst, Reap, Disarm
<1>2. CASE AlarmStep
  BY <1>2 DEF AlarmStep, problem_timeout_handler, TimeoutHandler, GoOff
<1>3. CASE ChildStep
  BY <1>3 DEF ChildStep, Exec, Die
<1> QED
  BY <1>1, <1>2, <1>3 DEF DraftsNext

(* The lines of the input are executed one after the other, each once,     *)
(* although a child whose exec fails moves the offset of the shared file.  *)
THEOREM NoGhostInputAlways == DraftsSpec => NoGhostInput
<1>1. ASSUME IInv, [DraftsNext]_draftVars
      PROVE  [version # "problem" => (line' # line => line' = line + 1)]_draftVars
  <2> SUFFICES ASSUME DraftsNext, version # "problem"
               PROVE  line' # line => line' = line + 1
    BY <1>1
  <2>1. CASE Read
    <3>1. SafeInv
      BY <1>1 DEF IInv
    <3> QED
      BY <3>1, <2>1, ReadMovesOn
  <2>2. CASE ~Read
    BY <2>2, OnlyReadChangesLine
  <2> QED
    BY <2>1, <2>2
<1> QED
  BY <1>1, IInvAlways, PTL DEF DraftsSpec, NoGhostInput
=============================================================================
