---------------------------- MODULE LiveConfig -----------------------------
(***************************************************************************)
(* The live parameters of the application (testbed/app.py run): the ones   *)
(* of its own configuration are set when it starts, and on SIGHUP it reads *)
(* the configuration file again and sets those it finds there.             *)
(*                                                                         *)
(* Python runs a signal handler in the main thread between two             *)
(* instructions, those of a handler included: a SIGHUP that comes while    *)
(* config_update runs starts another one, which ends first.  SIGHUPs that  *)
(* come before the handler starts are one.                                 *)
(*                                                                         *)
(*   phase     "setup" until the handler is there, "up", "dead"            *)
(*   file      what live_config of the file says, or Broken: somebody      *)
(*             edits the file in place                                     *)
(*   hups      the number of SIGHUPs sent; pending: one is to be handled   *)
(*   frames    the calls of update_live_config that are active, the        *)
(*             innermost first                                             *)
(*   attr      the attributes of the application                           *)
(*   block     what the setters have told the blocks of the flow graph     *)
(*   last      the live_config that was read last (history)                *)
(*   overlap   whether a call has interrupted another (history)            *)
(***************************************************************************)
EXTENDS Naturals, Sequences

CONSTANTS
  Param,      \* the names a live_config may have
  Settable,   \* those with an attribute and a setter
  Checked,    \* those whose setter converts the value before it assigns it
  Value,      \* their values
  Zero,       \* a value Python takes for false
  Bad,        \* a value with which the setter raises
  Unset,      \* of a block that no setter has told anything
  AtFirst,    \* the values of the attributes that the constructor sets
  Contents,   \* the live_configs: sequences of a name and its value
  Broken,     \* a file that is missing, no JSON, or without app_config
  MaxHups     \* a bound on hups

ASSUME LiveConfigAssumption ==
  /\ Checked \subseteq Settable /\ Settable \subseteq Param
  /\ Zero \in Value /\ Bad \in Value /\ Zero # Bad /\ Unset \notin Value
  /\ AtFirst \in [Settable -> Value \ {Bad}]
  /\ Contents \subseteq Seq(Param \X Value) /\ Broken \notin Contents
  /\ \A c \in Contents : \A i, j \in 1 .. Len(c) : c[i][1] = c[j][1] => i = j
  /\ MaxHups \in Nat

VARIABLES phase, file, hups, pending, frames, attr, block, last, overlap

vars == <<phase, file, hups, pending, frames, attr, block, last, overlap>>

(* at: the point in the loop over live_cfg.items(); todo: the items from   *)
(* there; startup: called with the configuration the application has.      *)
Frame == [at : {"read", "loop", "attr", "load", "block"}, todo : Seq(Param \X Value),
          startup : BOOLEAN]

TypeOK ==
  /\ phase \in {"setup", "up", "dead"}
  /\ file \in Contents \cup {Broken} /\ last \in Contents
  /\ hups \in 0 .. MaxHups /\ pending \in BOOLEAN /\ overlap \in BOOLEAN
  /\ frames \in Seq(Frame)
  /\ attr \in [Settable -> Value]
  /\ block \in [Settable -> Value \cup {Unset}]

(* last is the configuration that run_app has read before.                 *)
Init ==
  /\ phase = "setup"
  /\ last \in Contents /\ file \in Contents \cup {Broken}
  /\ hups = 0 /\ pending = FALSE /\ frames = <<>> /\ overlap = FALSE
  /\ attr = AtFirst /\ block = [k \in Settable |-> Unset]

-----------------------------------------------------------------------------
(* The user.                                                               *)

Edit ==
  /\ file' \in Contents \cup {Broken}
  /\ UNCHANGED <<phase, hups, pending, frames, attr, block, last, overlap>>

(* Before there is a handler, SIGHUP ends the process.                     *)
Hup ==
  /\ hups < MaxHups /\ phase # "dead"
  /\ hups' = hups + 1
  /\ IF phase = "setup" THEN phase' = "dead" /\ UNCHANGED pending
     ELSE pending' = TRUE /\ UNCHANGED phase
  /\ UNCHANGED <<file, frames, attr, block, last, overlap>>

-----------------------------------------------------------------------------
(* The application.                                                        *)

(* The handler is installed, and update_live_config(config_dict) called.   *)
Install ==
  /\ phase = "setup" /\ phase' = "up"
  /\ frames' = <<[at |-> "loop", todo |-> last, startup |-> TRUE]>>
  /\ UNCHANGED <<file, hups, pending, attr, block, last, overlap>>

Deliver ==
  /\ phase = "up" /\ pending
  /\ pending' = FALSE
  /\ frames' = <<[at |-> "read", todo |-> <<>>, startup |-> FALSE]>> \o frames
  /\ overlap' = (overlap \/ frames # <<>>)
  /\ UNCHANGED <<phase, file, hups, attr, block, last>>

(* The innermost call is at point p, and goes to point q with these items. *)
At(p) == phase = "up" /\ frames # <<>> /\ Head(frames).at = p
Goto(q, items) ==
  frames' = <<[at |-> q, todo |-> items, startup |-> Head(frames).startup]>> \o Tail(frames)

(* The name and the value of the item the loop is at.                      *)
Name == Head(frames).todo[1][1]
Val == Head(frames).todo[1][2]
Rest == Tail(Head(frames).todo)

(* Mutant of Fail: config_update catches nothing.                          *)
FailUncaught == phase' = "dead" /\ frames' = <<>>

(* An exception: config_update catches it, but nothing does at the start.  *)
Fail ==
  IF Head(frames).startup THEN phase' = "dead" /\ frames' = <<>>
  ELSE frames' = Tail(frames) /\ UNCHANGED phase

(* Mutant of Read: what is read is not looked at.                          *)
ReadUnchecked ==
  /\ At("read")
  /\ Goto("loop", file) /\ last' = file
  /\ UNCHANGED <<phase, file, hups, pending, attr, block, overlap>>

Read ==
  /\ At("read")
  /\ IF file = Broken THEN Fail /\ UNCHANGED last
     ELSE Goto("loop", file) /\ last' = file /\ UNCHANGED phase
  /\ UNCHANGED <<file, hups, pending, attr, block, overlap>>

(* Mutant of Updates: the new value must be true as well.                  *)
UpdatesToTrue(k) == k \in Settable /\ attr[k] # Zero /\ Val # Zero

(* An item is set if there is a setter and the attribute is true.          *)
Updates(k) == k \in Settable /\ attr[k] # Zero

(* Mutant of Loop: an item without a setter is not passed.                 *)
LoopStays ==
  /\ At("loop")
  /\ IF Head(frames).todo = <<>> THEN frames' = Tail(frames)
     ELSE IF Updates(Name) THEN Goto("attr", Head(frames).todo)
     ELSE UNCHANGED frames
  /\ UNCHANGED <<phase, file, hups, pending, attr, block, last, overlap>>

Loop ==
  /\ At("loop")
  /\ IF Head(frames).todo = <<>> THEN frames' = Tail(frames)
     ELSE IF Updates(Name) THEN Goto("attr", Head(frames).todo)
     ELSE Goto("loop", Rest)
  /\ UNCHANGED <<phase, file, hups, pending, attr, block, last, overlap>>

SetAttr ==
  /\ At("attr")
  /\ IF Val = Bad /\ Name \in Checked THEN Fail /\ UNCHANGED attr
     ELSE attr' = [attr EXCEPT ![Name] = Val] /\ Goto("load", Head(frames).todo)
          /\ UNCHANGED phase
  /\ UNCHANGED <<file, hups, pending, block, last, overlap>>

(* The setter reads the attribute again for the block.                     *)
Load ==
  /\ At("load")
  /\ Goto("block", << <<Name, attr[Name]>> >> \o Rest)
  /\ UNCHANGED <<phase, file, hups, pending, attr, block, last, overlap>>

SetBlock ==
  /\ At("block")
  /\ IF Val = Bad THEN Fail /\ UNCHANGED block
     ELSE block' = [block EXCEPT ![Name] = Val] /\ Goto("loop", Rest) /\ UNCHANGED phase
  /\ UNCHANGED <<file, hups, pending, attr, last, overlap>>

Main == Install \/ Deliver \/ Read \/ Loop \/ SetAttr \/ Load \/ SetBlock

Next == Edit \/ Hup \/ Main

(* The main thread runs.                                                   *)
Spec == Init /\ [][Next]_vars /\ WF_vars(Main)

-----------------------------------------------------------------------------
(* Properties.                                                             *)

Quiet == phase = "up" /\ frames = <<>>

(* Item i of last comes before every item with which a setter raises.      *)
Reached(i) == \A j \in 1 .. i : last[j][2] # Bad

(* Whatever signals, files and values come once the application runs, they *)
(* do not end it (config_update).                                          *)
Survives ==
  [][phase = "up" /\ (\A i \in 1 .. Len(frames) : ~frames[i].startup) => phase' = "up"]_vars

(* When SIGHUPs have not overlapped and none is being handled, every       *)
(* attribute named in the live_config read last, before a value that       *)
(* raises, is false or has the value it gives, and so has its block.       *)
LastReadHolds ==
  Quiet /\ ~overlap =>
    \A i \in 1 .. Len(last) : Reached(i) /\ last[i][1] \in Settable =>
      \/ attr[last[i][1]] = Zero
      \/ attr[last[i][1]] = last[i][2] /\ block[last[i][1]] = last[i][2]

(* A SIGHUP that comes is handled, and every call that it interrupts ends. *)
HupEnds == pending ~> (phase = "dead" \/ (Quiet /\ ~pending))

(* The attribute k has the value that the live_config read last gives it.  *)
SetterUpdates(k) ==
  Quiet /\ ~overlap =>
    \A i \in 1 .. Len(last) : Reached(i) /\ last[i][1] = k => attr[k] = last[i][2]

(* An attribute with a setter is updated on the fly (testbed/app.py:47).   *)
SettersUpdate == \A k \in Settable : SetterUpdates(k)

=============================================================================
