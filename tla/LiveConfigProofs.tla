-------------------------- MODULE LiveConfigProofs -------------------------
(* Proofs about LiveConfig for all parameters, values and files.           *)
EXTENDS LiveConfig, SequenceTheorems, TLAPS

-----------------------------------------------------------------------------
(* The inductive invariant.                                                *)

(* Item i of last, and the first n, as LastReadHolds has them.             *)
Holds(i) ==
  Reached(i) /\ last[i][1] \in Settable =>
    \/ attr[last[i][1]] = Zero
    \/ attr[last[i][1]] = last[i][2] /\ block[last[i][1]] = last[i][2]

Applied(n) == \A i \in 1 .. n : Holds(i)

Top == Head(frames)

(* The items of last that the only call has passed.                        *)
Passed == Len(last) - Len(Top.todo)

InSetter == {"attr", "load", "block"}

(* A call in a setter has an item to set.                                  *)
Pointed ==
  \A i \in 1 .. Len(frames) :
    frames[i].at \in InSetter => frames[i].todo # <<>> /\ frames[i].todo[1][1] \in Settable

(* While no call has interrupted another, the only one goes through last.  *)
Single ==
  phase = "up" /\ ~overlap /\ frames # <<>> =>
    /\ Len(frames) = 1
    /\ Top.at = "read" => Applied(Len(last))
    /\ Top.at # "read" =>
         /\ Len(Top.todo) <= Len(last) /\ Applied(Passed)
         /\ \A i \in 1 .. Len(Top.todo) : Top.todo[i] = last[Passed + i]
    /\ Top.at \in {"load", "block"} => attr[Name] = Val

IInv == TypeOK /\ Pointed /\ Single /\ LastReadHolds

-----------------------------------------------------------------------------
(* Types of the innermost call.                                            *)

Item == Param \X Value

LEMMA TopType ==
  ASSUME TypeOK, Pointed, frames # <<>>
  PROVE  /\ Top \in Frame /\ Top.todo \in Seq(Item) /\ Len(Top.todo) \in Nat
         /\ Tail(frames) \in Seq(Frame) /\ Len(frames) \in Nat \ {0}
         /\ Len(Tail(frames)) = Len(frames) - 1 /\ Top = frames[1]
         /\ \A i \in 1 .. Len(Tail(frames)) : Tail(frames)[i] = frames[i + 1]
         /\ Top.at \in InSetter => Top.todo # <<>> /\ Name \in Settable
<1>1. /\ Top \in Frame /\ Tail(frames) \in Seq(Frame) /\ Len(frames) \in Nat \ {0}
      /\ Len(Tail(frames)) = Len(frames) - 1
      /\ \A i \in 1 .. Len(Tail(frames)) : Tail(frames)[i] = frames[i + 1]
  BY HeadTailProperties, EmptySeq DEF TypeOK, Top
<1>2. Top = frames[1]
  BY DEF Top, TypeOK
<1>3. Top.todo \in Seq(Item)
  BY <1>1 DEF Frame, Item
<1>4. Len(Top.todo) \in Nat
  BY <1>3, LenProperties
<1>5. 1 \in 1 .. Len(frames)
  BY <1>1
<1> QED
  BY <1>1, <1>2, <1>3, <1>4, <1>5 DEF Pointed, Name, Top

LEMMA ItemType ==
  ASSUME TypeOK, Pointed, frames # <<>>, Top.todo # <<>>
  PROVE  /\ Name \in Param /\ Val \in Value /\ Top.todo[1] = <<Name, Val>>
         /\ Rest \in Seq(Item) /\ Len(Rest) = Len(Top.todo) - 1 /\ Len(Top.todo) \in Nat \ {0}
         /\ \A i \in 1 .. Len(Rest) : Rest[i] = Top.todo[i + 1]
<1>1. Top.todo \in Seq(Item)
  BY TopType
<1> DEFINE t == Top.todo
<1> HIDE DEF t
<1>2. /\ t \in Seq(Item) /\ t # <<>>
  BY <1>1 DEF t
<1>3. /\ Tail(t) \in Seq(Item) /\ Len(Tail(t)) = Len(t) - 1 /\ Len(t) \in Nat \ {0}
      /\ \A i \in 1 .. Len(Tail(t)) : Tail(t)[i] = t[i + 1]
  BY <1>2, HeadTailProperties, EmptySeq
<1>4. t[1] \in Param \X Value
  <2>1. 1 \in 1 .. Len(t)
    BY <1>3
  <2> QED
    BY <1>2, <2>1, ElementOfSeq DEF Item
<1> QED
  BY <1>3, <1>4 DEF t, Name, Val, Rest, Top

(* What Goto leaves.                                                       *)
LEMMA GotoFacts ==
  ASSUME TypeOK, Pointed, frames # <<>>, NEW q \in {"loop", "attr", "load", "block"},
         NEW t \in Seq(Item), q # "loop" => t # <<>> /\ t[1][1] \in Settable, Goto(q, t)
  PROVE  /\ frames' \in Seq(Frame) /\ frames' # <<>> /\ Len(frames') = Len(frames) /\ Pointed'
         /\ Top'.at = q /\ Top'.todo = t /\ Top'.startup = Top.startup
        /\ frames'[1] = Top' /\ \A i \in 2 .. Len(frames) : frames'[i] = frames[i]
<1> DEFINE f == [at |-> q, todo |-> t, startup |-> Top.startup]
           rest == Tail(frames)
<1>1. /\ Top \in Frame /\ rest \in Seq(Frame) /\ Len(frames) \in Nat \ {0}
      /\ Len(rest) = Len(frames) - 1 /\ \A i \in 1 .. Len(rest) : rest[i] = frames[i + 1]
  BY TopType
<1>2. f \in Frame /\ f.at = q /\ f.todo = t /\ f.startup = Top.startup
  <2>2. Top.startup \in BOOLEAN
    BY <1>1 DEF Frame
  <2>3. t \in Seq(Param \X Value) /\ q \in {"read", "loop", "attr", "load", "block"}
    BY DEF Item
  <2>4. f \in Frame
    BY <2>2, <2>3 DEF Frame
  <2> QED
    BY <2>4
<1>3. frames' = <<f>> \o rest
  BY DEF Goto, Top
<1> HIDE DEF f, rest
<1>4. <<f>> \in Seq(Frame) /\ Len(<<f>>) = 1 /\ <<f>>[1] = f
  BY <1>2
<1>5. /\ frames' \in Seq(Frame) /\ Len(frames') = 1 + Len(rest)
      /\ \A i \in 1 .. 1 + Len(rest) :
           frames'[i] = IF i <= 1 THEN <<f>>[i] ELSE rest[i - 1]
  BY <1>1, <1>3, <1>4, ConcatProperties
<1>6. Len(frames') = Len(frames) /\ frames'[1] = f /\ frames' # <<>>
  BY <1>1, <1>4, <1>5, EmptySeq
<1>7. \A i \in 2 .. Len(frames) : frames'[i] = frames[i]
  <2> TAKE i \in 2 .. Len(frames)
  <2>1. i \in 1 .. 1 + Len(rest) /\ ~(i <= 1) /\ i - 1 \in 1 .. Len(rest) /\ (i - 1) + 1 = i
    BY <1>1
  <2> QED
    BY <1>1, <1>5, <2>1
<1>8. Pointed'
  <2> SUFFICES ASSUME NEW i \in 1 .. Len(frames'), frames'[i].at \in InSetter
               PROVE  frames'[i].todo # <<>> /\ frames'[i].todo[1][1] \in Settable
    BY DEF Pointed
  <2>1. CASE i = 1
    BY <1>2, <1>6, <2>1 DEF InSetter
  <2>2. CASE i \in 2 .. Len(frames)
    BY <1>1, <1>7, <2>2 DEF Pointed
  <2> QED
    BY <1>1, <1>6, <2>1, <2>2
<1>9. Top' = f
  BY <1>5, <1>6 DEF Top
<1> QED
  BY <1>2, <1>5, <1>6, <1>7, <1>8, <1>9

(* What the end of the innermost call leaves.                              *)
LEMMA PopFacts ==
  ASSUME TypeOK, Pointed, frames # <<>>, frames' = Tail(frames) \/ frames' = <<>>
  PROVE  /\ frames' \in Seq(Frame) /\ Pointed'
         /\ Len(frames) = 1 => frames' = <<>>
         /\ \A i \in 1 .. Len(frames') : i + 1 \in 1 .. Len(frames) /\ frames'[i] = frames[i + 1]
<1>1. /\ Tail(frames) \in Seq(Frame) /\ Len(frames) \in Nat \ {0}
      /\ Len(Tail(frames)) = Len(frames) - 1
      /\ \A i \in 1 .. Len(Tail(frames)) : Tail(frames)[i] = frames[i + 1]
  BY TopType
<1>2. <<>> \in Seq(Frame) /\ Len(<<>>) = 0
  BY EmptySeq
<1>3. CASE frames' = <<>>
  BY <1>1, <1>2, <1>3 DEF Pointed
<1>4. CASE frames' = Tail(frames)
  <2>1. Pointed'
    <3> SUFFICES ASSUME NEW i \in 1 .. Len(frames'), frames'[i].at \in InSetter
                 PROVE  frames'[i].todo # <<>> /\ frames'[i].todo[1][1] \in Settable
      BY DEF Pointed
    <3>1. i + 1 \in 1 .. Len(frames) /\ frames'[i] = frames[i + 1]
      BY <1>1, <1>4
    <3> QED
      BY <3>1 DEF Pointed
  <2>2. Len(frames) = 1 => frames' = <<>>
    <3> SUFFICES ASSUME Len(frames) = 1 PROVE Tail(frames) = <<>>
      BY <1>4
    <3>1. Len(Tail(frames)) = 0
      BY <1>1
    <3> QED
      BY <1>1, <3>1, EmptySeq
  <2> QED
    BY <1>1, <1>4, <2>1, <2>2
<1> QED
  BY <1>3, <1>4

-----------------------------------------------------------------------------
(* The steps.                                                              *)

LEMMA ContentType ==
  ASSUME NEW c \in Contents
  PROVE  c \in Seq(Item) /\ Len(c) \in Nat /\ \A i \in 1 .. Len(c) : c[i] \in Param \X Value
<1>1. c \in Seq(Item)
  BY LiveConfigAssumption DEF Item
<1> QED
  BY <1>1, LenProperties, ElementOfSeq DEF Item

LEMMA EditHupKeep ==
  ASSUME IInv, Edit \/ Hup
  PROVE  IInv'
<1>1. UNCHANGED <<frames, attr, block, last, overlap>>
  BY DEF Edit, Hup
<1>2. phase' = phase \/ phase' = "dead"
  BY DEF Edit, Hup
<1>3. TypeOK'
  <2>1. hups' \in 0 .. MaxHups
    <3>1. CASE hups' = hups
      BY <3>1 DEF IInv, TypeOK
    <3>2. CASE hups < MaxHups /\ hups' = hups + 1
      <4>1. hups \in 0 .. MaxHups /\ MaxHups \in Nat
        BY LiveConfigAssumption DEF IInv, TypeOK
      <4> QED
        BY <3>2, <4>1
    <3> QED
      BY <3>1, <3>2 DEF Edit, Hup
  <2>3. pending' \in BOOLEAN /\ file' \in Contents \cup {Broken}
    BY DEF Edit, Hup, IInv, TypeOK
  <2>2. phase' \in {"setup", "up", "dead"}
    BY <1>2 DEF IInv, TypeOK
  <2> QED
    BY <1>1, <2>1, <2>2, <2>3 DEF IInv, TypeOK
<1>4. Pointed'
  BY <1>1 DEF IInv, Pointed
<1>5. Single'
  BY <1>1, <1>2 DEF IInv, Single, Applied, Holds, Reached, Passed, Top, Name, Val
<1>6. LastReadHolds'
  BY <1>1, <1>2 DEF IInv, LastReadHolds, Quiet, Reached
<1> QED
  BY <1>3, <1>4, <1>5, <1>6 DEF IInv

(* A call of update_live_config that begins with the items of last.        *)
LEMMA InstallKeeps ==
  ASSUME IInv, Install
  PROVE  IInv'
<1> DEFINE f == [at |-> "loop", todo |-> last, startup |-> TRUE]
<1>1. frames' = <<f>> /\ phase' = "up"
      /\ UNCHANGED <<file, hups, pending, attr, block, last, overlap>>
  BY DEF Install
<1>2. last \in Contents /\ last \in Seq(Item) /\ Len(last) \in Nat
  BY ContentType DEF IInv, TypeOK
<1>3. f \in Frame /\ f.at = "loop" /\ f.todo = last
  BY <1>2 DEF Frame, Item
<1> HIDE DEF f
<1>4. frames' \in Seq(Frame) /\ Len(frames') = 1 /\ frames'[1] = f /\ Top' = f
  BY <1>1, <1>3 DEF Top
<1>5. TypeOK'
  BY <1>1, <1>4 DEF IInv, TypeOK
<1>6. Pointed'
  BY <1>3, <1>4 DEF Pointed, InSetter
<1>7. Single'
  <2>1. Passed' = 0 /\ Top'.todo = last /\ Top'.at = "loop"
    BY <1>1, <1>2, <1>3, <1>4 DEF Passed
  <2>2. Applied(Passed)'
    BY <2>1 DEF Applied
  <2>3. \A i \in 1 .. Len(Top'.todo) : Top'.todo[i] = last'[Passed' + i]
    BY <1>1, <1>2, <2>1
  <2>4. Len(Top'.todo) <= Len(last')
    BY <1>1, <1>2, <2>1
  <2> QED
    BY <1>4, <2>1, <2>2, <2>3, <2>4 DEF Single
<1>8. LastReadHolds'
  <2>1. frames' # <<>>
    BY <1>4, EmptySeq
  <2> QED
    BY <2>1 DEF LastReadHolds, Quiet
<1> QED
  BY <1>5, <1>6, <1>7, <1>8 DEF IInv

LEMMA DeliverKeeps ==
  ASSUME IInv, Deliver
  PROVE  IInv'
<1> DEFINE f == [at |-> "read", todo |-> <<>>, startup |-> FALSE]
<1>1. frames' = <<f>> \o frames /\ phase = "up" /\ phase' = "up" /\ pending' = FALSE
      /\ overlap' = (overlap \/ frames # <<>>)
      /\ UNCHANGED <<file, hups, attr, block, last>>
  BY DEF Deliver
<1>2. f \in Frame /\ f.at = "read"
  BY DEF Frame
<1> HIDE DEF f
<1>3. frames \in Seq(Frame) /\ <<f>> \in Seq(Frame) /\ Len(<<f>>) = 1 /\ <<f>>[1] = f
      /\ Len(frames) \in Nat
  BY <1>2, LenProperties DEF IInv, TypeOK
<1>4. /\ frames' \in Seq(Frame) /\ Len(frames') = 1 + Len(frames)
      /\ \A i \in 1 .. 1 + Len(frames) :
           frames'[i] = IF i <= 1 THEN <<f>>[i] ELSE frames[i - 1]
  BY <1>1, <1>3, ConcatProperties
<1>5. frames'[1] = f /\ frames' # <<>> /\ Top' = f
  <2>1. frames'[1] = f /\ frames' # <<>>
    BY <1>3, <1>4, EmptySeq
  <2> QED
    BY <1>4, <2>1 DEF Top
<1>6. TypeOK'
  <2>1. overlap' \in BOOLEAN
    BY <1>1 DEF IInv, TypeOK
  <2> QED
    BY <1>1, <1>4, <2>1 DEF IInv, TypeOK
<1>7. Pointed'
  <2> SUFFICES ASSUME NEW i \in 1 .. Len(frames'), frames'[i].at \in InSetter
               PROVE  frames'[i].todo # <<>> /\ frames'[i].todo[1][1] \in Settable
    BY DEF Pointed
  <2>1. i # 1
    BY <1>2, <1>5 DEF InSetter
  <2>2. i - 1 \in 1 .. Len(frames) /\ frames'[i] = frames[i - 1]
    BY <1>3, <1>4, <2>1
  <2> QED
    BY <2>2 DEF IInv, Pointed
<1>8. Single'
  <2> SUFFICES ASSUME ~overlap' PROVE Single'
    BY DEF Single
  <2>1. ~overlap /\ frames = <<>>
    BY <1>1 DEF IInv, TypeOK
  <2>2. Len(frames') = 1
    BY <1>4, <2>1, EmptySeq
  <2>3. Applied(Len(last))'
    BY <1>1, <2>1 DEF IInv, LastReadHolds, Quiet, Applied, Holds, Reached
  <2> QED
    BY <1>2, <1>5, <2>2, <2>3 DEF Single
<1>9. LastReadHolds'
  BY <1>5 DEF LastReadHolds, Quiet
<1> QED
  BY <1>6, <1>7, <1>8, <1>9 DEF IInv

(* An exception: what the call has not reached comes after a bad value, or *)
(* nothing was read.                                                       *)
LEMMA FailKeeps ==
  ASSUME IInv, phase = "up", frames # <<>>, Fail,
         UNCHANGED <<file, hups, pending, attr, block, last, overlap>>,
         ~overlap => Applied(Len(last))
  PROVE  IInv'
<1>1. /\ frames' \in Seq(Frame) /\ Pointed' /\ (Len(frames) = 1 => frames' = <<>>)
      /\ phase' \in {"up", "dead"}
  <2>1. frames' = Tail(frames) \/ frames' = <<>>
    BY DEF Fail
  <2> QED
    BY <2>1, PopFacts DEF IInv, Fail
<1>2. TypeOK'
  BY <1>1 DEF IInv, TypeOK
<1>3. ~overlap => frames' = <<>>
  BY <1>1 DEF IInv, Single
<1>4. Single'
  BY <1>3 DEF Single
<1>5. LastReadHolds'
  BY DEF LastReadHolds, Applied, Holds, Reached, Quiet
<1> QED
  BY <1>1, <1>2, <1>4, <1>5 DEF IInv

LEMMA ReadKeeps ==
  ASSUME IInv, Read
  PROVE  IInv'
<1>1. phase = "up" /\ frames # <<>> /\ Top.at = "read"
      /\ UNCHANGED <<hups, pending, attr, block, overlap, file>>
  BY DEF Read, At, Top
<1>2. ~overlap => Applied(Len(last))
  BY <1>1 DEF IInv, Single
<1>3. CASE file = Broken
  BY <1>1, <1>2, <1>3, FailKeeps DEF Read
<1>4. CASE file # Broken
  <2>1. Goto("loop", file) /\ last' = file /\ phase' = phase /\ file \in Contents
    BY <1>4 DEF Read, IInv, TypeOK
  <2>2. file \in Seq(Item) /\ Len(file) \in Nat
    BY <2>1, ContentType
  <2>3. /\ frames' \in Seq(Frame) /\ frames' # <<>> /\ Len(frames') = Len(frames) /\ Pointed'
        /\ Top'.at = "loop" /\ Top'.todo = file
    BY <1>1, <2>1, <2>2, GotoFacts DEF IInv
  <2>4. TypeOK'
    BY <1>1, <2>1, <2>3 DEF IInv, TypeOK
  <2>5. Single'
    <3>1. Passed' = 0
      BY <2>1, <2>2, <2>3 DEF Passed
    <3>2. Applied(Passed)'
      BY <3>1 DEF Applied
    <3>3. Len(Top'.todo) <= Len(last')
          /\ \A i \in 1 .. Len(Top'.todo) : Top'.todo[i] = last'[Passed' + i]
      BY <2>1, <2>2, <2>3, <3>1
    <3>4. phase' = "up" /\ ~overlap' => Len(frames') = 1
      BY <1>1, <2>1, <2>3 DEF IInv, Single
    <3> QED
      BY <2>3, <3>2, <3>3, <3>4 DEF Single
  <2>6. LastReadHolds'
    BY <2>3 DEF LastReadHolds, Quiet
  <2> QED
    BY <2>3, <2>4, <2>5, <2>6 DEF IInv
<1> QED
  BY <1>3, <1>4

(* The item a call is at, in terms of last.                                *)
LEMMA AtItem ==
  ASSUME IInv, phase = "up", ~overlap, frames # <<>>, Top.todo # <<>>, Top.at # "read"
  PROVE  /\ Passed \in Nat /\ Passed + 1 \in 1 .. Len(last) /\ Len(last) \in Nat
         /\ last[Passed + 1] = <<Name, Val>>
         /\ \A i \in 1 .. Passed : last[i][1] # Name
<1>1. Len(Top.todo) \in Nat \ {0} /\ Top.todo[1] = <<Name, Val>>
  BY ItemType DEF IInv
<1>2. last \in Contents /\ Len(last) \in Nat
  BY ContentType DEF IInv, TypeOK
<1>3. /\ Len(Top.todo) <= Len(last)
      /\ \A i \in 1 .. Len(Top.todo) : Top.todo[i] = last[Passed + i]
  BY DEF IInv, Single
<1>4. Passed \in Nat /\ Passed + 1 \in 1 .. Len(last)
  BY <1>1, <1>2, <1>3 DEF Passed
<1>5. last[Passed + 1] = <<Name, Val>>
  <2>1. 1 \in 1 .. Len(Top.todo)
    BY <1>1
  <2> QED
    BY <1>1, <1>3, <2>1
<1>6. \A i, j \in 1 .. Len(last) : last[i][1] = last[j][1] => i = j
  BY <1>2, LiveConfigAssumption
<1>7. ASSUME NEW i \in 1 .. Passed PROVE last[i][1] # Name
  <2>1. i \in 1 .. Len(last) /\ i # Passed + 1
    BY <1>2, <1>4
  <2>2. last[Passed + 1][1] = Name
    BY <1>5
  <2> QED
    BY <1>4, <1>6, <2>1, <2>2
<1> QED
  BY <1>2, <1>4, <1>5, <1>7

(* A bad value at the item: nothing from there on is reached.              *)
LEMMA BadEnds ==
  ASSUME IInv, phase = "up", ~overlap, frames # <<>>, Top.todo # <<>>, Top.at # "read", Val = Bad
  PROVE  Applied(Len(last))
<1>1. /\ Passed \in Nat /\ Passed + 1 \in 1 .. Len(last) /\ Len(last) \in Nat
      /\ last[Passed + 1][2] = Bad
  <2>1. last[Passed + 1] = <<Name, Val>>
    BY AtItem
  <2> QED
    BY <2>1, AtItem
<1>2. Applied(Passed)
  BY DEF IInv, Single
<1>3. \A i \in 1 .. Len(last) : i \in 1 .. Passed \/ ~Reached(i)
  <2> TAKE i \in 1 .. Len(last)
  <2>1. CASE i > Passed
    <3>1. Passed + 1 \in 1 .. i
      BY <1>1, <2>1
    <3> QED
      BY <1>1, <3>1 DEF Reached
  <2>2. CASE i <= Passed
    BY <1>1, <2>2
  <2> QED
    BY <1>1, <2>1, <2>2
<1> QED
  BY <1>2, <1>3 DEF Applied, Holds

(* The only call goes past the item it is at, which is applied.            *)
LEMMA PassItem ==
  ASSUME IInv, phase = "up", frames # <<>>, Top.todo # <<>>, Top.at # "read",
         Goto("loop", Rest), phase' = phase, last' = last, overlap' = overlap,
         ~overlap => \A i \in 1 .. Passed + 1 : Holds(i)'
  PROVE  /\ frames' \in Seq(Frame) /\ Pointed' /\ Single' /\ LastReadHolds'
<1>1. /\ Rest \in Seq(Item) /\ Len(Rest) = Len(Top.todo) - 1 /\ Len(Top.todo) \in Nat \ {0}
      /\ \A i \in 1 .. Len(Rest) : Rest[i] = Top.todo[i + 1]
  BY ItemType DEF IInv
<1>2. /\ frames' \in Seq(Frame) /\ frames' # <<>> /\ Len(frames') = Len(frames) /\ Pointed'
      /\ Top'.at = "loop" /\ Top'.todo = Rest
  BY <1>1, GotoFacts DEF IInv
<1>3. ASSUME ~overlap PROVE Single'
  <2>1. /\ Passed \in Nat /\ Passed + 1 \in 1 .. Len(last) /\ Len(last) \in Nat
    BY <1>3, AtItem
  <2>2. Passed' = Passed + 1
    <3>1. Passed' = Len(last) - Len(Rest) /\ Passed = Len(last) - Len(Top.todo)
      BY <1>2 DEF Passed
    <3>2. Len(last) \in Nat /\ Len(Top.todo) \in Nat /\ Len(Rest) = Len(Top.todo) - 1
      BY <1>1, <2>1
    <3> HIDE DEF Passed, Rest, Top
    <3> QED
      BY <3>1, <3>2
  <2>3. Applied(Passed)'
    BY <1>3, <2>2 DEF Applied
  <2>4. /\ Len(frames) = 1 /\ Len(Top.todo) <= Len(last)
        /\ \A i \in 1 .. Len(Top.todo) : Top.todo[i] = last[Passed + i]
    BY <1>3 DEF IInv, Single
  <2>5. Len(Top'.todo) <= Len(last)
    BY <1>1, <1>2, <2>1, <2>4
  <2>6. ASSUME NEW i \in 1 .. Len(Top'.todo)
        PROVE  Top'.todo[i] = last[Passed' + i]
    <3>1. i \in 1 .. Len(Rest) /\ i \in Nat /\ i + 1 \in 1 .. Len(Top.todo)
      BY <1>1, <1>2
    <3>2. Passed + (i + 1) = Passed' + i
      BY <2>1, <2>2, <3>1
    <3>3. Top'.todo[i] = Top.todo[i + 1] /\ Top.todo[i + 1] = last[Passed + (i + 1)]
      BY <1>1, <1>2, <2>4, <3>1
    <3> QED
      BY <3>2, <3>3
  <2> QED
    BY <1>2, <2>3, <2>4, <2>5, <2>6 DEF Single
<1>4. Single'
  BY <1>3 DEF Single
<1>5. LastReadHolds'
  BY <1>2 DEF LastReadHolds, Quiet
<1> QED
  BY <1>2, <1>4, <1>5

LEMMA LoopKeeps ==
  ASSUME IInv, Loop
  PROVE  IInv'
<1>1. phase = "up" /\ frames # <<>> /\ Top.at = "loop"
      /\ UNCHANGED <<phase, file, hups, pending, attr, block, last, overlap>>
  BY DEF Loop, At, Top
<1>2. CASE Top.todo = <<>>
  <2>1. frames' = Tail(frames)
    BY <1>2 DEF Loop, Top
  <2>2. /\ frames' \in Seq(Frame) /\ Pointed' /\ (Len(frames) = 1 => frames' = <<>>)
    BY <1>1, <2>1, PopFacts DEF IInv
  <2>3. ~overlap => frames' = <<>>
    BY <1>1, <2>2 DEF IInv, Single
  <2>4. ~overlap => Applied(Len(last))
    <3> SUFFICES ASSUME ~overlap PROVE Applied(Len(last))
      OBVIOUS
    <3>1. Applied(Passed)
      BY <1>1 DEF IInv, Single
    <3>2. Passed = Len(last)
      <4>1. Len(last) \in Nat /\ Len(Top.todo) = 0
        BY <1>2, EmptySeq, ContentType DEF IInv, TypeOK
      <4> QED
        BY <4>1 DEF Passed
    <3> QED
      BY <3>1, <3>2
  <2>5. TypeOK'
    BY <1>1, <2>2 DEF IInv, TypeOK
  <2>6. Single'
    BY <1>1, <2>3 DEF Single
  <2>7. LastReadHolds'
    BY <1>1, <2>4 DEF LastReadHolds, Applied, Holds, Reached
  <2> QED
    BY <2>2, <2>5, <2>6, <2>7 DEF IInv
<1>3. CASE Top.todo # <<>> /\ Updates(Name)
  <2>1. Goto("attr", Top.todo)
    BY <1>3 DEF Loop, Top
  <2>2. Top.todo \in Seq(Item) /\ Top.todo[1][1] \in Settable
    BY <1>1, <1>3, TopType DEF IInv, Updates, Name, Top
  <2>3. /\ frames' \in Seq(Frame) /\ frames' # <<>> /\ Len(frames') = Len(frames) /\ Pointed'
        /\ Top'.at = "attr" /\ Top'.todo = Top.todo
    BY <1>1, <1>3, <2>1, <2>2, GotoFacts DEF IInv
  <2>4. TypeOK'
    BY <1>1, <2>3 DEF IInv, TypeOK
  <2>5. Single'
    <3> SUFFICES ASSUME ~overlap PROVE Single'
      BY <1>1 DEF Single
    <3>1. /\ Len(frames) = 1 /\ Len(Top.todo) <= Len(last) /\ Applied(Passed)
          /\ \A i \in 1 .. Len(Top.todo) : Top.todo[i] = last[Passed + i]
      BY <1>1 DEF IInv, Single
    <3>2. Passed' = Passed
      BY <1>1, <2>3 DEF Passed
    <3>3. Applied(Passed)'
      BY <1>1, <3>1, <3>2 DEF Applied, Holds, Reached
    <3>4. Name' = Name /\ Name \in Settable
      BY <1>3, <2>3 DEF Name, Top, Updates
    <3> QED
      BY <1>1, <2>3, <3>1, <3>2, <3>3, <3>4 DEF Single
  <2>6. LastReadHolds'
    BY <2>3 DEF LastReadHolds, Quiet
  <2> QED
    BY <2>3, <2>4, <2>5, <2>6 DEF IInv
<1>4. CASE Top.todo # <<>> /\ ~Updates(Name)
  <2>1. Goto("loop", Rest)
    BY <1>4 DEF Loop, Top
  <2>2. ASSUME ~overlap, NEW i \in 1 .. Passed + 1 PROVE Holds(i)'
    <3>1. /\ Passed \in Nat /\ last[Passed + 1] = <<Name, Val>>
      BY <1>1, <1>4, <2>2, AtItem
    <3>2. Applied(Passed)
      BY <1>1, <2>2 DEF IInv, Single
    <3>3. Holds(i)
      <4>1. CASE i = Passed + 1
        BY <1>4, <3>1, <4>1 DEF Holds, Updates
      <4>2. CASE i \in 1 .. Passed
        BY <3>2, <4>2 DEF Applied
      <4> QED
        BY <3>1, <4>1, <4>2
    <3> QED
      BY <1>1, <3>3 DEF Holds, Reached
  <2>3. /\ frames' \in Seq(Frame) /\ Pointed' /\ Single' /\ LastReadHolds'
    BY <1>1, <1>4, <2>1, <2>2, PassItem
  <2>4. TypeOK'
    BY <1>1, <2>3 DEF IInv, TypeOK
  <2> QED
    BY <2>3, <2>4 DEF IInv
<1> QED
  BY <1>2, <1>3, <1>4

LEMMA SetAttrKeeps ==
  ASSUME IInv, SetAttr
  PROVE  IInv'
<1>1. phase = "up" /\ frames # <<>> /\ Top.at = "attr" /\ Top.todo # <<>> /\ Name \in Settable
      /\ UNCHANGED <<file, hups, pending, block, last, overlap>>
  <2>1. phase = "up" /\ frames # <<>> /\ Top.at = "attr"
    BY DEF SetAttr, At, Top
  <2> QED
    BY <2>1, TopType DEF SetAttr, IInv, InSetter
<1>2. CASE Val = Bad /\ Name \in Checked
  <2>1. ~overlap => Applied(Len(last))
    BY <1>1, <1>2, BadEnds
  <2> QED
    BY <1>1, <1>2, <2>1, FailKeeps DEF SetAttr
<1>3. CASE ~(Val = Bad /\ Name \in Checked)
  <2>1. attr' = [attr EXCEPT ![Name] = Val] /\ Goto("load", Top.todo) /\ phase' = phase
    BY <1>3 DEF SetAttr, Top
  <2>2. Top.todo \in Seq(Item) /\ Top.todo[1][1] \in Settable
    BY <1>1, TopType DEF IInv, Name, Top
  <2>3. /\ frames' \in Seq(Frame) /\ frames' # <<>> /\ Len(frames') = Len(frames) /\ Pointed'
        /\ Top'.at = "load" /\ Top'.todo = Top.todo
    BY <1>1, <2>1, <2>2, GotoFacts DEF IInv
  <2>4. Val \in Value
    BY <1>1, ItemType DEF IInv
  <2>5. TypeOK'
    <3>1. attr' \in [Settable -> Value]
      BY <2>1, <2>4 DEF IInv, TypeOK
    <3> QED
      BY <1>1, <2>1, <2>3, <3>1 DEF IInv, TypeOK
  <2>6. Single'
    <3> SUFFICES ASSUME ~overlap PROVE Single'
      BY <1>1 DEF Single
    <3>1. /\ Len(frames) = 1 /\ Len(Top.todo) <= Len(last) /\ Applied(Passed)
          /\ \A i \in 1 .. Len(Top.todo) : Top.todo[i] = last[Passed + i]
      BY <1>1 DEF IInv, Single
    <3>2. Passed' = Passed
      BY <1>1, <2>3 DEF Passed
    <3>3. Name' = Name /\ Val' = Val
      BY <2>3 DEF Name, Val, Top
    <3>4. attr'[Name] = Val /\ \A k \in Settable \ {Name} : attr'[k] = attr[k]
      BY <1>1, <2>1 DEF IInv, TypeOK
    <3>5. \A i \in 1 .. Passed : last[i][1] # Name
      BY <1>1, AtItem
    <3>6. Applied(Passed)'
      <4>1. ASSUME NEW i \in 1 .. Passed PROVE Holds(i)'
        <5>1. Holds(i)
          BY <3>1 DEF Applied
        <5> QED
          BY <1>1, <3>4, <3>5, <5>1 DEF Holds, Reached
      <4> QED
        BY <3>2, <4>1 DEF Applied
    <3> QED
      BY <1>1, <2>3, <3>1, <3>2, <3>3, <3>4, <3>6 DEF Single
  <2>7. LastReadHolds'
    BY <2>3 DEF LastReadHolds, Quiet
  <2> QED
    BY <2>3, <2>5, <2>6, <2>7 DEF IInv
<1> QED
  BY <1>2, <1>3

LEMMA LoadKeeps ==
  ASSUME IInv, Load
  PROVE  IInv'
<1> DEFINE t == << <<Name, attr[Name]>> >> \o Rest
<1>1. phase = "up" /\ frames # <<>> /\ Top.at = "load" /\ Top.todo # <<>> /\ Name \in Settable
      /\ UNCHANGED <<phase, file, hups, pending, attr, block, last, overlap>>
      /\ Goto("block", t)
  <2>1. phase = "up" /\ frames # <<>> /\ Top.at = "load"
    BY DEF Load, At, Top
  <2> QED
    BY <2>1, TopType DEF Load, IInv, InSetter
<1>2. /\ Rest \in Seq(Item) /\ Len(Rest) = Len(Top.todo) - 1 /\ Len(Top.todo) \in Nat \ {0}
      /\ Top.todo[1] = <<Name, Val>> /\ \A i \in 1 .. Len(Rest) : Rest[i] = Top.todo[i + 1]
  BY <1>1, ItemType DEF IInv
<1>3. <<Name, attr[Name]>> \in Item
  BY <1>1, LiveConfigAssumption DEF IInv, TypeOK, Item
<1>4. /\ t \in Seq(Item) /\ Len(t) = Len(Top.todo) /\ t[1] = <<Name, attr[Name]>>
      /\ \A i \in 2 .. Len(t) : t[i] = Top.todo[i]
  <2> DEFINE first == <<Name, attr[Name]>>
  <2> HIDE DEF first
  <2>1. <<first>> \in Seq(Item) /\ Len(<<first>>) = 1 /\ <<first>>[1] = first
    BY <1>3 DEF first
  <2>2. /\ <<first>> \o Rest \in Seq(Item) /\ Len(<<first>> \o Rest) = 1 + Len(Rest)
        /\ \A i \in 1 .. 1 + Len(Rest) :
             (<<first>> \o Rest)[i] = IF i <= 1 THEN <<first>>[i] ELSE Rest[i - 1]
    BY <1>2, <2>1, ConcatProperties
  <2>3. t = <<first>> \o Rest
    BY DEF first
  <2> HIDE DEF t
  <2>4. Len(t) = Len(Top.todo) /\ t[1] = first
    BY <1>2, <2>1, <2>2, <2>3
  <2>5. ASSUME NEW i \in 2 .. Len(t) PROVE t[i] = Top.todo[i]
    <3>1. i \in 1 .. 1 + Len(Rest) /\ ~(i <= 1) /\ i - 1 \in 1 .. Len(Rest) /\ (i - 1) + 1 = i
      BY <1>2, <2>4
    <3> QED
      BY <1>2, <2>2, <2>3, <3>1
  <2> QED
    BY <2>2, <2>3, <2>4, <2>5 DEF first
<1> HIDE DEF t
<1>5. t # <<>> /\ t[1][1] \in Settable
  BY <1>1, <1>2, <1>4, EmptySeq
<1>6. /\ frames' \in Seq(Frame) /\ frames' # <<>> /\ Len(frames') = Len(frames) /\ Pointed'
      /\ Top'.at = "block" /\ Top'.todo = t
  BY <1>1, <1>4, <1>5, GotoFacts DEF IInv
<1>7. TypeOK'
  BY <1>1, <1>6 DEF IInv, TypeOK
<1>8. Single'
  <2> SUFFICES ASSUME ~overlap PROVE Single'
    BY <1>1 DEF Single
  <2>1. /\ Len(frames) = 1 /\ Len(Top.todo) <= Len(last) /\ Applied(Passed)
        /\ \A i \in 1 .. Len(Top.todo) : Top.todo[i] = last[Passed + i]
        /\ attr[Name] = Val
    BY <1>1 DEF IInv, Single
  <2>2. Passed' = Passed
    BY <1>1, <1>4, <1>6 DEF Passed
  <2>3. ASSUME NEW i \in 1 .. Len(t) PROVE t[i] = Top.todo[i]
    <3>1. CASE i = 1
      BY <1>2, <1>4, <2>1, <3>1
    <3>2. CASE i \in 2 .. Len(t)
      BY <1>4, <3>2
    <3> QED
      BY <1>2, <1>4, <3>1, <3>2
  <2>4. Applied(Passed)'
    BY <1>1, <2>1, <2>2 DEF Applied, Holds, Reached
  <2>5. Name' = Name /\ Val' = attr[Name]
    BY <1>4, <1>6 DEF Name, Val, Top
  <2>6. \A i \in 1 .. Len(Top'.todo) : Top'.todo[i] = last[Passed' + i]
    BY <1>4, <1>6, <2>1, <2>2, <2>3
  <2> QED
    BY <1>1, <1>4, <1>6, <2>1, <2>4, <2>5, <2>6 DEF Single
<1>9. LastReadHolds'
  BY <1>6 DEF LastReadHolds, Quiet
<1> QED
  BY <1>6, <1>7, <1>8, <1>9 DEF IInv

LEMMA SetBlockKeeps ==
  ASSUME IInv, SetBlock
  PROVE  IInv'
<1>1. phase = "up" /\ frames # <<>> /\ Top.at = "block" /\ Top.todo # <<>> /\ Name \in Settable
      /\ UNCHANGED <<file, hups, pending, attr, last, overlap>>
  <2>1. phase = "up" /\ frames # <<>> /\ Top.at = "block"
    BY DEF SetBlock, At, Top
  <2> QED
    BY <2>1, TopType DEF SetBlock, IInv, InSetter
<1>2. CASE Val = Bad
  <2>1. ~overlap => Applied(Len(last))
    BY <1>1, <1>2, BadEnds
  <2> QED
    BY <1>1, <1>2, <2>1, FailKeeps DEF SetBlock
<1>3. CASE Val # Bad
  <2>1. block' = [block EXCEPT ![Name] = Val] /\ Goto("loop", Rest) /\ phase' = phase
    BY <1>3 DEF SetBlock
  <2>2. block' \in [Settable -> Value \cup {Unset}]
    <3>1. Val \in Value
      BY <1>1, ItemType DEF IInv
    <3> QED
      BY <2>1, <3>1 DEF IInv, TypeOK
  <2>3. ASSUME ~overlap, NEW i \in 1 .. Passed + 1 PROVE Holds(i)'
    <3>1. /\ Passed \in Nat /\ last[Passed + 1] = <<Name, Val>>
          /\ \A j \in 1 .. Passed : last[j][1] # Name
      BY <1>1, <2>3, AtItem
    <3>2. Applied(Passed) /\ attr[Name] = Val
      BY <1>1, <2>3 DEF IInv, Single
    <3>3. block'[Name] = Val /\ \A k \in Settable \ {Name} : block'[k] = block[k]
      BY <1>1, <2>1 DEF IInv, TypeOK
    <3>4. CASE i = Passed + 1
      BY <1>1, <3>1, <3>2, <3>3, <3>4 DEF Holds
    <3>5. CASE i \in 1 .. Passed
      <4>1. Holds(i)
        BY <3>2, <3>5 DEF Applied
      <4> QED
        BY <1>1, <3>1, <3>3, <3>5, <4>1 DEF Holds, Reached
    <3> QED
      BY <3>1, <3>4, <3>5
  <2>4. /\ frames' \in Seq(Frame) /\ Pointed' /\ Single' /\ LastReadHolds'
    BY <1>1, <2>1, <2>3, PassItem
  <2>5. TypeOK'
    BY <1>1, <2>1, <2>2, <2>4 DEF IInv, TypeOK
  <2> QED
    BY <2>4, <2>5 DEF IInv
<1> QED
  BY <1>2, <1>3

LEMMA StutterKeeps ==
  ASSUME IInv, UNCHANGED vars
  PROVE  IInv'
<1>1. UNCHANGED <<phase, file, hups, pending, frames, attr, block, last, overlap>>
  BY DEF vars
<1> QED
  BY <1>1 DEF IInv, TypeOK, Pointed, Single, LastReadHolds, Applied, Holds, Reached,
              Passed, Top, Name, Val, Quiet

LEMMA InitIInv ==
  ASSUME Init
  PROVE  IInv
<1>1. frames = <<>> /\ phase = "setup" /\ <<>> \in Seq(Frame) /\ Len(<<>>) = 0
  BY EmptySeq DEF Init
<1>2. TypeOK
  <2>1. attr \in [Settable -> Value] /\ block \in [Settable -> Value \cup {Unset}]
    BY LiveConfigAssumption DEF Init
  <2>2. hups \in 0 .. MaxHups
    BY LiveConfigAssumption DEF Init
  <2>3. file \in Contents \cup {Broken} /\ last \in Contents
    BY DEF Init
  <2> QED
    BY <1>1, <2>1, <2>2, <2>3 DEF Init, TypeOK
<1> QED
  BY <1>1, <1>2 DEF IInv, Pointed, Single, LastReadHolds, Quiet

-----------------------------------------------------------------------------
(* A parameter that is never zero.                                         *)

(* These items give k no zero.                                             *)
NeverZero(k, items) == \A j \in 1 .. Len(items) : items[j][1] = k => items[j][2] # Zero

(* k is not zero at first and in no file.                                  *)
NonZero(k) == AtFirst[k] # Zero /\ \A c \in Contents : NeverZero(k, c)

(* k is not zero, nor will a call that is active make it so.               *)
StaysNonZero(k) ==
  /\ attr[k] # Zero
  /\ \A i \in 1 .. Len(frames) : NeverZero(k, frames[i].todo)

LEMMA RestNeverZero ==
  ASSUME TypeOK, Pointed, frames # <<>>, Top.todo # <<>>, NEW k, NeverZero(k, Top.todo)
  PROVE  NeverZero(k, Rest) /\ (Name = k => Val # Zero)
<1>1. /\ Top.todo[1] = <<Name, Val>> /\ Len(Rest) = Len(Top.todo) - 1
      /\ Len(Top.todo) \in Nat \ {0} /\ \A i \in 1 .. Len(Rest) : Rest[i] = Top.todo[i + 1]
  BY ItemType
<1>2. ASSUME NEW j \in 1 .. Len(Rest), Rest[j][1] = k PROVE Rest[j][2] # Zero
  <2>1. j + 1 \in 1 .. Len(Top.todo) /\ Rest[j] = Top.todo[j + 1]
    BY <1>1
  <2> QED
    BY <1>2, <2>1 DEF NeverZero
<1>3. 1 \in 1 .. Len(Top.todo)
  BY <1>1
<1> QED
  BY <1>1, <1>2, <1>3 DEF NeverZero

(* A call that goes on with items that give k no zero.                     *)
LEMMA GotoNonZero ==
  ASSUME TypeOK, Pointed, frames # <<>>, NEW q \in {"loop", "attr", "load", "block"},
         NEW t \in Seq(Item), q # "loop" => t # <<>> /\ t[1][1] \in Settable, Goto(q, t),
         NEW k, StaysNonZero(k), attr'[k] # Zero, NeverZero(k, t)
  PROVE  StaysNonZero(k)'
<1>1. /\ Len(frames') = Len(frames) /\ frames'[1].todo = t
      /\ \A i \in 2 .. Len(frames) : frames'[i] = frames[i]
  BY GotoFacts
<1>2. Len(frames) \in Nat
  BY TopType
<1>3. ASSUME NEW i \in 1 .. Len(frames') PROVE NeverZero(k, frames'[i].todo)
  <2>1. CASE i = 1
    BY <1>1, <2>1
  <2>2. CASE i # 1
    <3>1. i \in 2 .. Len(frames) /\ i \in 1 .. Len(frames)
      BY <1>1, <1>2, <2>2
    <3> QED
      BY <1>1, <3>1 DEF StaysNonZero
  <2> QED
    BY <2>1, <2>2
<1> QED
  BY <1>3 DEF StaysNonZero, NeverZero

(* A call that ends.                                                       *)
LEMMA PopNonZero ==
  ASSUME TypeOK, Pointed, frames # <<>>, frames' = Tail(frames) \/ frames' = <<>>,
         NEW k, StaysNonZero(k), attr' = attr
  PROVE  StaysNonZero(k)'
<1>1. \A i \in 1 .. Len(frames') : i + 1 \in 1 .. Len(frames) /\ frames'[i] = frames[i + 1]
  BY PopFacts
<1> QED
  BY <1>1 DEF StaysNonZero, NeverZero

LEMMA InitNonZero ==
  ASSUME NEW k \in Settable, NonZero(k), Init
  PROVE  StaysNonZero(k)
<1>1. attr[k] # Zero /\ Len(frames) = 0
  BY EmptySeq DEF Init, NonZero
<1> QED
  BY <1>1 DEF StaysNonZero

LEMMA OutsideNonZero ==
  ASSUME TypeOK, NEW k, NonZero(k), StaysNonZero(k),
         Edit \/ Hup \/ Install \/ Deliver \/ UNCHANGED vars
  PROVE  StaysNonZero(k)'
<1>1. CASE Edit \/ Hup \/ UNCHANGED vars
  <2>1. UNCHANGED <<frames, attr>>
    BY <1>1 DEF Edit, Hup, vars
  <2> QED
    BY <2>1 DEF StaysNonZero, NeverZero
<1>2. CASE Install
  <2> DEFINE f == [at |-> "loop", todo |-> last, startup |-> TRUE]
  <2>1. frames' = <<f>> /\ attr' = attr /\ f.todo = last /\ last \in Contents
    BY <1>2 DEF Install, TypeOK
  <2> HIDE DEF f
  <2>2. Len(frames') = 1 /\ frames'[1] = f
    BY <2>1
  <2> QED
    BY <2>1, <2>2 DEF StaysNonZero, NonZero, NeverZero
<1>3. CASE Deliver
  <2> DEFINE f == [at |-> "read", todo |-> <<>>, startup |-> FALSE]
  <2>1. frames' = <<f>> \o frames /\ attr' = attr /\ f \in Frame /\ f.todo = <<>>
    BY <1>3 DEF Deliver, Frame
  <2> HIDE DEF f
  <2>2. frames \in Seq(Frame) /\ Len(frames) \in Nat /\ <<f>> \in Seq(Frame)
        /\ Len(<<f>>) = 1 /\ <<f>>[1] = f
    BY <2>1, LenProperties DEF TypeOK
  <2>3. /\ Len(frames') = 1 + Len(frames)
        /\ \A i \in 1 .. 1 + Len(frames) :
             frames'[i] = IF i <= 1 THEN <<f>>[i] ELSE frames[i - 1]
    BY <2>1, <2>2, ConcatProperties
  <2>4. NeverZero(k, f.todo)
    BY <2>1, EmptySeq DEF NeverZero
  <2>5. ASSUME NEW i \in 1 .. Len(frames') PROVE NeverZero(k, frames'[i].todo)
    <3>1. CASE i = 1
      BY <2>2, <2>3, <2>4, <3>1
    <3>2. CASE i # 1
      <4>1. i - 1 \in 1 .. Len(frames) /\ frames'[i] = frames[i - 1]
        BY <2>2, <2>3, <3>2
      <4> QED
        BY <4>1 DEF StaysNonZero
    <3> QED
      BY <3>1, <3>2
  <2> QED
    BY <2>1, <2>5 DEF StaysNonZero, NeverZero
<1> QED
  BY <1>1, <1>2, <1>3

LEMMA CallNonZero ==
  ASSUME TypeOK, Pointed, NEW k \in Settable, NonZero(k), StaysNonZero(k),
         Read \/ Loop \/ SetAttr \/ Load \/ SetBlock
  PROVE  StaysNonZero(k)'
<1>1. frames # <<>>
  BY DEF Read, Loop, SetAttr, Load, SetBlock, At
<1>2. /\ Top.todo \in Seq(Item) /\ NeverZero(k, Top.todo)
      /\ Top.at \in InSetter => Top.todo # <<>> /\ Name \in Settable
  <2>1. 1 \in 1 .. Len(frames) /\ Top = frames[1]
    BY <1>1, TopType
  <2> QED
    BY <1>1, <2>1, TopType DEF StaysNonZero
<1>3. Top.todo # <<>> => Rest \in Seq(Item) /\ NeverZero(k, Rest) /\ (Name = k => Val # Zero)
  BY <1>1, <1>2, RestNeverZero, ItemType
<1>4. ASSUME Fail, attr' = attr PROVE StaysNonZero(k)'
  <2>1. frames' = Tail(frames) \/ frames' = <<>>
    BY <1>4 DEF Fail
  <2> QED
    BY <1>1, <1>4, <2>1, PopNonZero
<1>5. attr[k] # Zero
  BY DEF StaysNonZero
<1>6. CASE Read
  <2>1. attr' = attr
    BY <1>6 DEF Read
  <2>2. CASE file = Broken
    BY <1>4, <1>6, <2>1, <2>2 DEF Read
  <2>3. CASE file # Broken
    <3>1. Goto("loop", file) /\ file \in Contents
      BY <1>6, <2>3 DEF Read, TypeOK
    <3>2. file \in Seq(Item) /\ NeverZero(k, file)
      BY <3>1, ContentType DEF NonZero
    <3> QED
      BY <1>1, <1>5, <2>1, <3>1, <3>2, GotoNonZero
  <2> QED
    BY <2>2, <2>3
<1>7. CASE Loop
  <2>1. attr' = attr
    BY <1>7 DEF Loop
  <2>2. CASE Top.todo = <<>>
    BY <1>1, <1>7, <2>1, <2>2, PopNonZero DEF Loop, Top
  <2>3. CASE Top.todo # <<>> /\ Updates(Name)
    <3>1. Goto("attr", Top.todo) /\ Top.todo[1][1] \in Settable
      BY <1>7, <2>3 DEF Loop, Top, Updates, Name
    <3> QED
      BY <1>1, <1>2, <1>5, <2>1, <2>3, <3>1, GotoNonZero
  <2>4. CASE Top.todo # <<>> /\ ~Updates(Name)
    <3>1. Goto("loop", Rest)
      BY <1>7, <2>4 DEF Loop, Top
    <3> QED
      BY <1>1, <1>3, <1>5, <2>1, <2>4, <3>1, GotoNonZero
  <2> QED
    BY <2>2, <2>3, <2>4
<1>8. CASE SetAttr
  <2>1. Top.todo # <<>> /\ Name \in Settable
    BY <1>2, <1>8 DEF SetAttr, At, Top, InSetter
  <2>2. CASE Val = Bad /\ Name \in Checked
    BY <1>4, <1>8, <2>2 DEF SetAttr
  <2>3. CASE ~(Val = Bad /\ Name \in Checked)
    <3>1. attr' = [attr EXCEPT ![Name] = Val] /\ Goto("load", Top.todo)
      BY <1>8, <2>3 DEF SetAttr, Top
    <3>2. attr'[k] # Zero
      BY <1>3, <1>5, <2>1, <3>1 DEF TypeOK
    <3>3. Top.todo[1][1] \in Settable
      BY <2>1 DEF Name, Top
    <3> QED
      BY <1>1, <1>2, <2>1, <3>1, <3>2, <3>3, GotoNonZero
  <2> QED
    BY <2>2, <2>3
<1>9. CASE Load
  <2> DEFINE first == <<Name, attr[Name]>>
  <2>1. Top.todo # <<>> /\ Name \in Settable
    BY <1>2, <1>9 DEF Load, At, Top, InSetter
  <2>2. Goto("block", <<first>> \o Rest) /\ attr' = attr
    BY <1>9 DEF Load
  <2>3. first \in Item /\ first[1] = Name /\ (first[1] = k => first[2] # Zero)
    BY <1>5, <2>1, LiveConfigAssumption DEF TypeOK, Item
  <2> HIDE DEF first
  <2>4. <<first>> \in Seq(Item) /\ Len(<<first>>) = 1 /\ <<first>>[1] = first
    BY <2>3
  <2> DEFINE t == <<first>> \o Rest
  <2>5. /\ t \in Seq(Item) /\ Len(t) = 1 + Len(Rest)
        /\ \A i \in 1 .. 1 + Len(Rest) : t[i] = IF i <= 1 THEN <<first>>[i] ELSE Rest[i - 1]
    BY <1>3, <2>1, <2>4, ConcatProperties
  <2>6. Len(Rest) \in Nat
    BY <1>3, <2>1, LenProperties
  <2>7. Goto("block", t)
    BY <2>2
  <2> HIDE DEF t
  <2>8. t # <<>> /\ t[1] = first
    BY <2>4, <2>5, <2>6, EmptySeq
  <2>9. ASSUME NEW j \in 1 .. Len(t), t[j][1] = k PROVE t[j][2] # Zero
    <3>1. CASE j = 1
      BY <2>3, <2>8, <2>9, <3>1
    <3>2. CASE j # 1
      <4>1. j - 1 \in 1 .. Len(Rest) /\ t[j] = Rest[j - 1]
        BY <2>5, <2>6, <3>2
      <4> QED
        BY <1>3, <2>1, <2>9, <4>1 DEF NeverZero
    <3> QED
      BY <3>1, <3>2
  <2>10. NeverZero(k, t)
    BY <2>9 DEF NeverZero
  <2>11. t[1][1] \in Settable
    BY <2>1, <2>3, <2>8
  <2> QED
    BY <1>1, <1>5, <2>2, <2>5, <2>7, <2>8, <2>10, <2>11, GotoNonZero
<1>10. CASE SetBlock
  <2>1. Top.todo # <<>> /\ attr' = attr
    BY <1>2, <1>10 DEF SetBlock, At, Top, InSetter
  <2>2. CASE Val = Bad
    BY <1>4, <1>10, <2>1, <2>2 DEF SetBlock
  <2>3. CASE Val # Bad
    <3>1. Goto("loop", Rest)
      BY <1>10, <2>3 DEF SetBlock
    <3> QED
      BY <1>1, <1>3, <1>5, <2>1, <3>1, GotoNonZero
  <2> QED
    BY <2>2, <2>3
<1> QED
  BY <1>6, <1>7, <1>8, <1>9, <1>10

-----------------------------------------------------------------------------
(* The theorems.                                                           *)

(* Every behaviour keeps the inductive invariant.                          *)
THEOREM Invariance == Spec => []IInv
<1>1. Init => IInv
  BY InitIInv
<1>2. IInv /\ [Next]_vars => IInv'
  BY EditHupKeep, InstallKeeps, DeliverKeeps, ReadKeeps, LoopKeeps, SetAttrKeeps,
     LoadKeeps, SetBlockKeeps, StutterKeeps DEF Next, Main
<1> QED
  BY <1>1, <1>2, PTL DEF Spec

(* The variables keep their types.                                         *)
THEOREM TypeCorrect == Spec => []TypeOK
<1>1. IInv => TypeOK
  BY DEF IInv
<1> QED
  BY <1>1, Invariance, PTL

(* Between SIGHUPs that have not overlapped, the attributes and the blocks *)
(* follow the configuration read last (update_live_config).                *)
THEOREM ConfigurationHolds == Spec => []LastReadHolds
<1>1. IInv => LastReadHolds
  BY DEF IInv
<1> QED
  BY <1>1, Invariance, PTL

(* No signal, file or value ends the application once its own              *)
(* configuration is set (config_update).                                   *)
THEOREM SignalsAreSurvived == Spec => Survives
<1>1. IInv /\ [Next]_vars =>
        [phase = "up" /\ (\A i \in 1 .. Len(frames) : ~frames[i].startup) => phase' = "up"]_vars
  <2> SUFFICES ASSUME IInv, [Next]_vars, phase = "up",
                      \A i \in 1 .. Len(frames) : ~frames[i].startup
               PROVE  phase' = "up"
    OBVIOUS
  <2>1. ASSUME frames # <<>> PROVE ~Head(frames).startup
    <3>1. Len(frames) \in Nat \ {0} /\ Head(frames) = frames[1]
      BY <2>1, TopType DEF IInv, Top
    <3> QED
      BY <3>1
  <2>2. ASSUME frames # <<>>, Fail PROVE phase' = "up"
    BY <2>1, <2>2 DEF Fail
  <2>3. CASE Edit \/ Hup \/ Install \/ Deliver \/ Loop \/ Load \/ UNCHANGED vars
    BY <2>3 DEF Edit, Hup, Install, Deliver, Loop, Load, vars
  <2>4. CASE Read
    BY <2>2, <2>4 DEF Read, At
  <2>5. CASE SetAttr
    BY <2>2, <2>5 DEF SetAttr, At
  <2>6. CASE SetBlock
    BY <2>2, <2>6 DEF SetBlock, At
  <2> QED
    BY <2>3, <2>4, <2>5, <2>6 DEF Next, Main
<1> QED
  BY <1>1, Invariance, PTL DEF Spec, Survives

(* A parameter that is not zero at first and in no file is updated by its  *)
(* setter: the condition on the attribute's value (update_live_config,     *)
(* testbed/app.py:43) is all that can keep one from it.                    *)
THEOREM NonZeroIsUpdated ==
  ASSUME NEW k \in Settable, NonZero(k)
  PROVE  Spec => []SetterUpdates(k)
<1>1. Init => StaysNonZero(k)
  BY InitNonZero
<1>2. IInv /\ StaysNonZero(k) /\ [Next]_vars => StaysNonZero(k)'
  BY OutsideNonZero, CallNonZero DEF IInv, Next, Main
<1>3. IInv /\ StaysNonZero(k) => SetterUpdates(k)
  <2> SUFFICES ASSUME LastReadHolds, attr[k] # Zero, Quiet, ~overlap,
                      NEW i \in 1 .. Len(last), Reached(i), last[i][1] = k
               PROVE  attr[k] = last[i][2]
    BY DEF IInv, StaysNonZero, SetterUpdates
  <2> QED
    BY DEF LastReadHolds
<1> QED
  BY <1>1, <1>2, <1>3, Invariance, PTL DEF Spec

(* With no zero anywhere, every attribute with a setter is updated on the  *)
(* fly, as testbed/app.py:47 says.                                         *)
THEOREM SettersUpdateNonZeros ==
  ASSUME \A k \in Settable : NonZero(k)
  PROVE  Spec => []SettersUpdate
<1> DEFINE J == \A k \in Settable : StaysNonZero(k)
<1>1. Init => J
  BY InitNonZero
<1>2. IInv /\ J /\ [Next]_vars => J'
  BY OutsideNonZero, CallNonZero DEF IInv, Next, Main
<1>3. IInv /\ J => SettersUpdate
  <2> SUFFICES ASSUME LastReadHolds, J, Quiet, ~overlap, NEW k \in Settable,
                      NEW i \in 1 .. Len(last), Reached(i), last[i][1] = k
               PROVE  attr[k] = last[i][2]
    BY DEF IInv, SettersUpdate, SetterUpdates
  <2> QED
    BY DEF LastReadHolds, StaysNonZero
<1> QED
  BY <1>1, <1>2, <1>3, Invariance, PTL DEF Spec

=============================================================================
