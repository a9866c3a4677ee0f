---------------------------- MODULE UtilityProofs ----------------------------
(***************************************************************************)
(* Proofs about the utilities: Uuid over any number of restarts, TimeUtil  *)
(* on every day from 1970 on, SystemClock from 1970 to 2099, Md5 on        *)
(* messages of any length.                                                 *)
(***************************************************************************)
EXTENDS Uuid, TimeUtil, SystemClock, Md5, SequenceTheorems, TLAPS

-----------------------------------------------------------------------------
(* Uuid: a UUID is given again in the three ways of RepeatsExplained only,  *)
(* for any clock and any number of UUIDs, over any number of restarts, when *)
(* either the clock is set back or the state file is lost.                  *)

Seqs == 0 .. ClockSeqs - 1
UUID == [time : Int, cs : Seqs, over : BOOLEAN]

UuidTypeOK ==
  /\ mishap \in {"none", "clock_set_back", "file_lost"}
  /\ clock \in Int
  /\ saved \in [ts : Int, cs : Seqs]
  /\ library \in {"down", "writing", "up"}
  /\ state \in [ts : Int, cs : Seqs]
  /\ time_last \in Int
  /\ uuids_this_tick \in Nat
  /\ firstSeq \in Seqs
  /\ rounds \in Nat
  /\ asked \in {"no", "here", "before"}
  /\ standing \in {"own", "doubted", "reused"}
  /\ issued \in Seq(UUID)

(* The clock sequence after r increments of c.                              *)
Rotated(c, r) == IF c + r < ClockSeqs THEN c + r ELSE c + r - ClockSeqs
Current == Rotated(firstSeq, rounds)

(* The clock sequences given so far are those of the starts so far.         *)
Given(i) == \E r \in 0 .. rounds : issued[i].cs = Rotated(firstSeq, r)

(* A UUID of clock sequence c that was not counted past its reading is of   *)
(* an earlier reading of the clock, or of this one, and then known to the   *)
(* history and, where it counts, to the counter.                            *)
Behind(c) ==
  \A i \in DOMAIN issued :
    issued[i].cs = c /\ ~issued[i].over =>
      /\ issued[i].time < clock + Resolution
      /\ asked = "no" => issued[i].time < clock
      /\ asked = "here" /\ ~IsFirstTime /\ clock = time_last =>
           issued[i].time <= clock + uuids_this_tick

(* While the file is kept and the clock sequences have not come round: the  *)
(* clock sequence in use, or in the file, is that of the last start, and no *)
(* other start had it.                                                      *)
Generations ==
  mishap # "file_lost" =>
    /\ library = "down" /\ ~whole => issued = <<>>
    /\ library = "up" => whole
    /\ library # "down" => standing # "doubted"
    /\ rounds >= ClockSeqs => standing = "reused"
    /\ rounds < ClockSeqs =>
         /\ library # "down" => state.cs = Current
         /\ whole => saved.cs = Current
         /\ \A i \in DOMAIN issued : Given(i)
    /\ standing = "own" => Behind(Current)

(* While the clock only goes on, the time alone tells UUIDs apart.          *)
Forward ==
  mishap # "clock_set_back" => \A c \in Seqs : Behind(c)

UuidInv == UuidTypeOK /\ Generations /\ Forward

-----------------------------------------------------------------------------
(* An increment less than ClockSeqs after another gives another sequence.   *)
LEMMA RotatedDiffers ==
  ASSUME NEW c \in Seqs, NEW r \in Nat, NEW q \in Nat, r < q, q < ClockSeqs
  PROVE  Rotated(c, r) # Rotated(c, q)
BY UuidAssumption DEF Rotated, Seqs

LEMMA RotatedNext ==
  ASSUME NEW c \in Seqs, NEW r \in Nat, r + 1 < ClockSeqs
  PROVE  NextSeq(Rotated(c, r)) = Rotated(c, r + 1)
BY UuidAssumption DEF Rotated, NextSeq, Seqs

LEMMA NextSeqType ==
  ASSUME NEW c \in Seqs
  PROVE  NextSeq(c) \in Seqs
BY UuidAssumption DEF NextSeq, Seqs

LEMMA TickType ==
  ASSUME UuidTypeOK
  PROVE  Tick \in Nat /\ Timestamp \in Int
BY UuidAssumption DEF UuidTypeOK, Tick, NextTick, Timestamp

LEMMA StaticType ==
  ASSUME UuidTypeOK, get_current_time
  PROVE  time_last' \in Int /\ uuids_this_tick' \in Nat
BY TickType DEF UuidTypeOK, get_current_time

LEMMA AskedType ==
  ASSUME UuidTypeOK, NEW now \in {"no", "here", "before"}
  PROVE  AskedThen(now) \in {"no", "here", "before"}
BY DEF AskedThen

LEMMA IssuedType ==
  ASSUME UuidTypeOK
  PROVE  /\ issued \in Seq(UUID) /\ Len(issued) \in Nat
         /\ DOMAIN issued = 1 .. Len(issued)
         /\ \A i \in DOMAIN issued :
              issued[i] \in UUID /\ issued[i].time \in Int /\ issued[i].cs \in Seqs
<1>1. issued \in Seq(UUID)
  BY DEF UuidTypeOK
<1>2. DOMAIN issued = 1 .. Len(issued) /\ Len(issued) \in Nat
  BY <1>1
<1>3. \A i \in DOMAIN issued : issued[i] \in UUID
  BY <1>1, <1>2
<1>4. \A u \in UUID : u.time \in Int /\ u.cs \in Seqs
  BY DEF UUID
<1> QED BY <1>1, <1>2, <1>3, <1>4

(* What the counter does at a start keeps what was given behind it.         *)
LEMMA CountKeepsBehind ==
  ASSUME UuidTypeOK, get_current_time, asked' = AskedThen(asked), UNCHANGED <<clock, issued>>,
         NEW c, Behind(c)
  PROVE  Behind(c)'
<1> SUFFICES ASSUME NEW i \in DOMAIN issued, issued[i].cs = c, ~issued[i].over
             PROVE  /\ issued[i].time < clock + Resolution
                    /\ asked' = "no" => issued[i].time < clock
                    /\ asked' = "here" /\ ~IsFirstTime' /\ clock = time_last' =>
                         issued[i].time <= clock + uuids_this_tick'
  BY DEF Behind
<1>1. /\ issued[i].time < clock + Resolution
      /\ asked = "no" => issued[i].time < clock
      /\ asked = "here" /\ ~IsFirstTime /\ clock = time_last =>
           issued[i].time <= clock + uuids_this_tick
  BY DEF Behind
<1>2. asked' # "before" => asked' = asked /\ (asked = "here" => Tick # 0)
  BY DEF AskedThen, Crowded
<1>3. Tick # 0 => /\ ~IsFirstTime /\ clock = time_last
                  /\ Tick = uuids_this_tick + 1 /\ uuids_this_tick' = uuids_this_tick + 1
  BY DEF Tick, NextTick, get_current_time
<1>4. issued[i].time \in Int /\ clock \in Int /\ uuids_this_tick \in Nat
  BY IssuedType DEF UuidTypeOK
<1> QED BY <1>1, <1>2, <1>3, <1>4

LEMMA UuidStarts == UuidInit => UuidInv
<1> SUFFICES ASSUME UuidInit PROVE UuidInv
  OBVIOUS
<1>1. issued = <<>> /\ DOMAIN issued = {}
  BY DEF UuidInit
<1>2. 0 \in Seqs
  BY UuidAssumption DEF Seqs
<1>3. UuidTypeOK
  BY <1>1, <1>2, UuidAssumption DEF UuidInit, UuidTypeOK, NoState
<1>4. Generations
  BY <1>1, UuidAssumption DEF UuidInit, Generations, Behind
<1>5. Forward
  BY <1>1 DEF Forward, Behind
<1> QED BY <1>3, <1>4, <1>5 DEF UuidInv

-----------------------------------------------------------------------------
LEMMA ReadKeeps ==
  ASSUME UuidInv, BeginInit, ReadState
  PROVE  UuidInv'
<1>1. /\ UNCHANGED <<mishap, clock, issued, firstSeq>>
      /\ get_current_time /\ asked' = AskedThen(asked) /\ UuidTypeOK /\ whole
  BY DEF BeginInit, ReadState, UuidInv
<1>2. library' = "writing" /\ whole' = FALSE /\ saved' = NoState
  BY DEF BeginInit
<1>3. Timestamp \in Int /\ SavedSeq \in Seqs
  BY TickType, NextSeqType DEF UuidInv, UuidTypeOK, SavedSeq
<1>4. state' = [ts |-> Timestamp, cs |-> SavedSeq] /\ state'.cs = SavedSeq
  BY DEF ReadState
<1>5. /\ rounds' = IF SetBackSeen /\ rounds < ClockSeqs THEN rounds + 1 ELSE rounds
      /\ standing' = StandingRead
      /\ rounds \in Nat
  BY DEF ReadState, UuidInv, UuidTypeOK
<1>6. UuidTypeOK'
  <2>1. rounds' \in Nat /\ standing' \in {"own", "doubted", "reused"}
    BY <1>1, <1>5 DEF UuidTypeOK, StandingRead
  <2>2. 0 \in Seqs
    BY UuidAssumption DEF Seqs
  <2>3. time_last' \in Int /\ uuids_this_tick' \in Nat
    BY <1>1, StaticType
  <2>4. asked' \in {"no", "here", "before"}
    BY <1>1, AskedType DEF UuidTypeOK
  <2> QED BY <1>1, <1>2, <1>3, <1>4, <2>1, <2>2, <2>3, <2>4 DEF UuidTypeOK, NoState
<1>7. \A c : Behind(c) => Behind(c)'
  BY <1>1, CountKeepsBehind
<1>8. Generations'
  <2> SUFFICES ASSUME mishap # "file_lost" PROVE Generations'
    BY <1>1 DEF Generations
  <2>1. firstSeq \in Seqs /\ ClockSeqs \in Nat
    BY UuidAssumption DEF UuidInv, UuidTypeOK
  <2>2. CASE SetBackSeen /\ rounds + 1 < ClockSeqs
    <3>0. rounds < ClockSeqs
      BY <2>1, <2>2, <1>5
    <3>1. rounds' = rounds + 1 /\ standing' = "own" /\ saved.cs = Current
      BY <2>2, <3>0, <1>1, <1>5 DEF UuidInv, Generations, StandingRead
    <3>2. SavedSeq = Rotated(firstSeq, rounds + 1)
      BY <2>1, <2>2, <3>1, <1>5, RotatedNext DEF SavedSeq, Current
    <3>3. ASSUME NEW i \in DOMAIN issued
          PROVE  Given(i)' /\ issued[i].cs # SavedSeq
      <4>1. PICK r \in 0 .. rounds : issued[i].cs = Rotated(firstSeq, r)
        BY <2>1, <2>2, <3>3, <1>5 DEF UuidInv, Generations, Given
      <4>2. r \in 0 .. rounds' /\ r \in Nat /\ r < rounds + 1
        BY <3>1, <1>5
      <4>3. Rotated(firstSeq, r) # Rotated(firstSeq, rounds + 1)
        BY <4>2, <2>1, <2>2, <1>5, RotatedDiffers
      <4>4. Given(i)'
        BY <4>1, <4>2, <1>1 DEF Given, Rotated
      <4> QED BY <4>1, <4>3, <4>4, <3>2
    <3>4. Current' = SavedSeq
      BY <3>1, <3>2, <1>1 DEF Current, Rotated
    <3>5. Behind(Current)'
      BY <3>3, <3>4, <1>1 DEF Behind
    <3> QED BY <1>1, <1>2, <1>4, <2>1, <2>2, <3>1, <3>3, <3>4, <3>5, <1>5 DEF Generations
  <2>3. CASE SetBackSeen /\ rounds + 1 >= ClockSeqs
    <3>1. standing' = "reused" /\ rounds' >= ClockSeqs
      BY <2>1, <2>3, <1>5 DEF StandingRead
    <3>2. ~(rounds' < ClockSeqs)
      BY <2>1, <3>1, <1>5
    <3> QED BY <1>1, <1>2, <3>1, <3>2 DEF Generations
  <2>4. CASE ~SetBackSeen
    <3>1. /\ rounds' = rounds /\ SavedSeq = saved.cs /\ Current' = Current
          /\ standing' \in {"own", "reused"}
          /\ standing' = "own" => standing = "own" \/ (standing = "doubted" /\ Past(saved.cs))
          /\ standing = "reused" => standing' = "reused"
      BY <2>4, <1>1, <1>5 DEF SavedSeq, Current, Rotated, StandingRead, UuidTypeOK
    <3>2. rounds < ClockSeqs =>
            state'.cs = Current' /\ \A i \in DOMAIN issued : Given(i)'
      BY <3>1, <1>1, <1>4 DEF UuidInv, Generations, Given, Rotated
    <3>3. standing' = "own" => Behind(Current)'
      <4> SUFFICES ASSUME standing' = "own" PROVE Behind(Current)
        BY <3>1, <1>7 DEF Behind
      <4>1. CASE standing = "own"
        BY <4>1 DEF UuidInv, Generations
      <4>2. CASE standing = "doubted" /\ Past(saved.cs)
        <5>0. rounds < ClockSeqs
          BY <4>2, <2>1, <1>5 DEF UuidInv, Generations
        <5>1. saved.cs = Current
          BY <5>0, <1>1 DEF UuidInv, Generations
        <5>2. \A i \in DOMAIN issued : issued[i].time \in Int
          BY <1>1, IssuedType
        <5>3. \A i \in DOMAIN issued : issued[i].cs = Current => issued[i].time < clock
          BY <4>2, <5>1 DEF Past
        <5>4. Resolution \in Nat /\ clock \in Int /\ uuids_this_tick \in Nat
          BY <1>1, UuidAssumption DEF UuidTypeOK
        <5>5. \A i \in DOMAIN issued : issued[i].cs = Current =>
                /\ issued[i].time < clock + Resolution
                /\ issued[i].time <= clock + uuids_this_tick
          BY <5>2, <5>3, <5>4
        <5> QED BY <5>3, <5>5 DEF Behind
      <4> QED BY <4>1, <4>2, <3>1
    <3>4. rounds' >= ClockSeqs => standing' = "reused"
      BY <3>1 DEF UuidInv, Generations
    <3> QED BY <1>1, <1>2, <3>1, <3>2, <3>3, <3>4 DEF Generations
  <2> QED BY <2>1, <2>2, <2>3, <2>4, <1>5
<1>9. Forward'
  BY <1>1, <1>7 DEF UuidInv, Forward
<1> QED BY <1>6, <1>8, <1>9 DEF UuidInv

LEMMA NewKeeps ==
  ASSUME UuidInv, BeginInit, NewState
  PROVE  UuidInv'
<1>1. /\ UNCHANGED <<mishap, clock, issued>> /\ rounds' = 0 /\ standing' = "own"
      /\ get_current_time /\ asked' = AskedThen(asked) /\ UuidTypeOK
  BY DEF BeginInit, NewState, UuidInv
<1>2. library' = "writing" /\ whole' = FALSE /\ saved' = NoState
  BY DEF BeginInit
<1>3. PICK cs \in Seqs : state' = [ts |-> Timestamp, cs |-> cs] /\ firstSeq' = cs
  BY DEF NewState, true_random, Seqs
<1>4. Timestamp \in Int /\ 0 \in Seqs
  BY TickType, UuidAssumption DEF UuidInv, Seqs
<1>5. UuidTypeOK'
  <2>1. time_last' \in Int /\ uuids_this_tick' \in Nat
    BY <1>1, StaticType
  <2>2. asked' \in {"no", "here", "before"}
    BY <1>1, AskedType DEF UuidTypeOK
  <2> QED BY <1>1, <1>2, <1>3, <1>4, <2>1, <2>2 DEF UuidTypeOK, NoState
<1>6. Generations'
  <2> SUFFICES ASSUME mishap # "file_lost" PROVE Generations'
    BY <1>1 DEF Generations
  <2>1. ~whole /\ library = "down"
    BY DEF NewState, BeginInit, UuidInv, Generations, UuidTypeOK
  <2>2. issued = <<>> /\ DOMAIN issued = {} /\ issued' = issued
    BY <2>1, <1>1 DEF UuidInv, Generations
  <2>3. Behind(Current)'
    BY <2>2 DEF Behind
  <2>4. state'.cs = Current'
    <3>1. state'.cs = firstSeq' /\ firstSeq' \in Seqs
      BY <1>3
    <3>2. Current' = Rotated(firstSeq', 0)
      BY <1>1 DEF Current, Rotated
    <3>3. ASSUME NEW c \in Seqs PROVE Rotated(c, 0) = c
      BY UuidAssumption DEF Rotated, Seqs
    <3> QED BY <3>1, <3>2, <3>3
  <2> QED BY <1>1, <1>2, <2>2, <2>3, <2>4, UuidAssumption DEF Generations
<1>7. Forward'
  BY <1>1, CountKeepsBehind DEF UuidInv, Forward
<1> QED BY <1>5, <1>6, <1>7 DEF UuidInv

-----------------------------------------------------------------------------
LEMMA LibraryKeeps ==
  ASSUME UuidInv, OpenFails \/ OutOfMemory \/ EndInit \/ WriteFails \/ Stop
  PROVE  UuidInv'
<1>1. UNCHANGED <<mishap, clock, firstSeq, rounds, standing, issued>> /\ UuidTypeOK
  BY DEF OpenFails, OutOfMemory, EndInit, WriteFails, Stop, sequence, UuidInv
<1>2. \/ library' = "down" /\ state' = NoState /\ UNCHANGED <<whole, saved>>
         /\ (library = "writing" => mishap = "file_lost")
      \/ library = "writing" /\ library' = "up" /\ state' = state
         /\ whole' = TRUE /\ saved' = state
  BY DEF OpenFails, OutOfMemory, EndInit, WriteFails, Stop, file
<1>3. time_last' \in Int /\ uuids_this_tick' \in Nat
  BY StaticType DEF OpenFails, OutOfMemory, EndInit, WriteFails, Stop, static, UuidInv, UuidTypeOK
<1>4. 0 \in Seqs
  BY UuidAssumption DEF Seqs
<1>5. asked' \in {"no", "here", "before"}
  BY <1>1, AskedType DEF OpenFails, OutOfMemory, EndInit, WriteFails, Stop, UuidTypeOK
<1>6. UuidTypeOK'
  BY <1>1, <1>2, <1>3, <1>4, <1>5 DEF UuidTypeOK, NoState
<1>7. \A c : Behind(c) => Behind(c)'
  <2>1. CASE OpenFails
    BY <2>1, <1>1, CountKeepsBehind DEF OpenFails
  <2>2. CASE OutOfMemory \/ EndInit \/ WriteFails
    BY <2>2 DEF OutOfMemory, EndInit, WriteFails, static, Behind
  <2>3. CASE Stop
    BY <2>3, <1>1 DEF Stop, Behind
  <2> QED BY <2>1, <2>2, <2>3
<1>8. Current' = Current
  BY <1>1 DEF Current, Rotated
<1>9. Generations'
  <2> SUFFICES ASSUME mishap # "file_lost" PROVE Generations'
    BY <1>1 DEF Generations
  <2>1. library' = "down" /\ ~whole' => issued' = <<>>
    BY <1>1, <1>2 DEF UuidInv, Generations, UuidTypeOK
  <2>2. /\ library' = "up" => whole'
        /\ library' # "down" => standing' # "doubted"
        /\ rounds' >= ClockSeqs => standing' = "reused"
    BY <1>1, <1>2 DEF UuidInv, Generations
  <2>3. rounds < ClockSeqs => \A i \in DOMAIN issued' : Given(i)'
    BY <1>1 DEF UuidInv, Generations, Given, Rotated
  <2>4. rounds < ClockSeqs =>
          (library' # "down" => state'.cs = Current) /\ (whole' => saved'.cs = Current)
    BY <1>1, <1>2 DEF UuidInv, Generations
  <2>5. standing = "own" => Behind(Current)'
    <3> SUFFICES ASSUME standing = "own" PROVE Behind(Current)'
      OBVIOUS
    <3>1. Behind(Current)
      BY DEF UuidInv, Generations
    <3> QED BY <3>1, <1>7, <1>8 DEF Behind
  <2> QED BY <2>1, <2>2, <2>3, <2>4, <2>5, <1>1, <1>8 DEF Generations
<1>10. Forward'
  BY <1>1, <1>7 DEF UuidInv, Forward
<1> QED BY <1>6, <1>9, <1>10 DEF UuidInv

(* Nothing of the clock sequence in use is as late as what is given now, in *)
(* a call that is not crowded.                                              *)
LEMMA NewIsLater ==
  ASSUME UuidInv, uuid_create, ~Crowded, NEW i \in DOMAIN issued,
         ~issued[i].over, Behind(issued[i].cs)
  PROVE  issued[i].time < Timestamp
<1>1. /\ asked = "no" => issued[i].time < clock
      /\ asked = "here" /\ ~IsFirstTime /\ clock = time_last =>
           issued[i].time <= clock + uuids_this_tick
  BY DEF Behind
<1>2. asked \in {"no", "here"} /\ (asked = "here" => Tick # 0)
  BY DEF Crowded, UuidInv, UuidTypeOK
<1>3. Tick # 0 => ~IsFirstTime /\ clock = time_last /\ Tick = uuids_this_tick + 1
  BY DEF Tick, NextTick
<1>4. /\ Tick \in Nat /\ clock \in Int /\ Timestamp = clock + Tick
      /\ issued[i].time \in Int /\ uuids_this_tick \in Nat
  BY TickType, IssuedType DEF UuidInv, UuidTypeOK, Timestamp
<1> QED BY <1>1, <1>2, <1>3, <1>4

LEMMA CreateKeeps ==
  ASSUME UuidInv, uuid_create
  PROVE  UuidInv'
<1> DEFINE new == [time |-> Timestamp, cs |-> state.cs, over |-> Tick >= Resolution]
<1>1. /\ UNCHANGED <<mishap, clock, whole, saved, library, state, firstSeq, rounds, standing>>
      /\ issued' = Append(issued, new) /\ get_current_time
      /\ asked' = AskedThen("here") /\ library = "up" /\ UuidTypeOK
  BY DEF uuid_create, file, sequence, UuidInv
<1>2. Tick \in Nat /\ clock \in Int /\ Timestamp = clock + Tick /\ Resolution \in Nat
  BY TickType, UuidAssumption DEF UuidInv, UuidTypeOK, Timestamp
<1>3. new \in UUID /\ issued \in Seq(UUID) /\ state.cs \in Seqs
  <2>1. state.cs \in Seqs
    BY <1>1 DEF UuidTypeOK
  <2>2. (Tick >= Resolution) \in BOOLEAN
    BY <1>2
  <2> QED BY <2>1, <2>2, <1>1, <1>2, IssuedType DEF UUID
<1>4. new.cs = state.cs /\ new.time = Timestamp /\ new.over = (Tick >= Resolution)
  OBVIOUS
<1> HIDE DEF new
<1>5. /\ DOMAIN issued = 1 .. Len(issued) /\ Len(issued) \in Nat
      /\ DOMAIN issued' = 1 .. Len(issued) + 1
      /\ \A i \in DOMAIN issued : issued'[i] = issued[i] /\ issued[i] \in UUID
      /\ issued'[Len(issued) + 1] = new
      /\ issued' \in Seq(UUID)
  <2>1. DOMAIN issued = 1 .. Len(issued) /\ Len(issued) \in Nat
        /\ \A i \in DOMAIN issued : issued[i] \in UUID
    BY <1>1, IssuedType
  <2> QED BY <1>1, <1>3, <2>1
<1>6. UuidTypeOK'
  <2>1. time_last' \in Int /\ uuids_this_tick' \in Nat
    BY <1>1, StaticType
  <2>2. asked' \in {"no", "here", "before"}
    BY <1>1, AskedType
  <2> QED BY <1>1, <1>5, <2>1, <2>2 DEF UuidTypeOK
<1>7. \A c : Behind(c) => Behind(c)'
  <2> SUFFICES ASSUME NEW c, Behind(c), NEW i \in DOMAIN issued',
                      issued'[i].cs = c, ~issued'[i].over
               PROVE  /\ issued'[i].time < clock + Resolution
                      /\ asked' = "no" => issued'[i].time < clock
                      /\ asked' = "here" /\ ~IsFirstTime' /\ clock = time_last' =>
                           issued'[i].time <= clock + uuids_this_tick'
    BY <1>1 DEF Behind
  <2>1. asked' # "no" /\ (asked' = "here" => ~Crowded) /\ uuids_this_tick' = Tick
    BY <1>1 DEF AskedThen, get_current_time
  <2>2. CASE i \in DOMAIN issued
    <3>1. issued'[i] = issued[i] /\ issued[i].time < clock + Resolution
      BY <2>2, <1>5 DEF Behind
    <3>2. ~Crowded => issued[i].time < Timestamp
      BY <2>2, <3>1, NewIsLater
    <3>3. issued[i].time \in Int
      BY <2>2, <1>1, IssuedType
    <3> QED BY <2>1, <3>1, <3>2, <3>3, <1>2
  <2>3. CASE i = Len(issued) + 1
    <3>1. issued'[i].time = clock + Tick /\ ~(Tick >= Resolution)
      BY <2>3, <1>2, <1>4, <1>5
    <3> QED BY <2>1, <3>1, <1>2
  <2> QED BY <2>2, <2>3, <1>5
<1>8. Current' = Current
  BY <1>1 DEF Current, Rotated
<1>9. Generations'
  <2> SUFFICES ASSUME mishap # "file_lost" PROVE Generations'
    BY <1>1 DEF Generations
  <2>1. /\ library' = "up" => whole'
        /\ library' # "down" => standing' # "doubted"
        /\ rounds' >= ClockSeqs => standing' = "reused"
    BY <1>1 DEF UuidInv, Generations
  <2>2. ASSUME rounds < ClockSeqs
        PROVE  state.cs = Current /\ saved.cs = Current
               /\ \A i \in DOMAIN issued' : Given(i)'
    <3>1. state.cs = Current /\ saved.cs = Current /\ rounds \in Nat
      BY <2>2, <1>1 DEF UuidInv, Generations, UuidTypeOK
    <3>2. ASSUME NEW i \in DOMAIN issued'
          PROVE  Given(i)'
      <4>1. CASE i \in DOMAIN issued
        BY <4>1, <2>2, <1>1, <1>5 DEF UuidInv, Generations, Given, Rotated
      <4>2. CASE i = Len(issued) + 1
        BY <4>2, <1>1, <1>4, <1>5, <3>1 DEF Given, Current, Rotated
      <4> QED BY <4>1, <4>2, <1>5
    <3> QED BY <3>1, <3>2
  <2>3. standing = "own" => Behind(Current)'
    <3> SUFFICES ASSUME standing = "own" PROVE Behind(Current)'
      OBVIOUS
    <3>1. Behind(Current)
      BY DEF UuidInv, Generations
    <3> QED BY <3>1, <1>7, <1>8 DEF Behind
  <2> QED BY <1>1, <1>8, <2>1, <2>2, <2>3 DEF Generations
<1>10. Forward'
  BY <1>1, <1>7 DEF UuidInv, Forward
<1> QED BY <1>6, <1>9, <1>10 DEF UuidInv

LEMMA ClockKeeps ==
  ASSUME UuidInv, Advance \/ SetBack
  PROVE  UuidInv'
<1>1. UNCHANGED <<mishap, whole, saved, library, state, IsFirstTime, time_last,
                  uuids_this_tick, firstSeq, rounds, issued>> /\ asked' = "no"
  BY DEF Advance, SetBack, file, static, sequence
<1>2. \/ clock' = clock + Resolution /\ UNCHANGED standing
      \/ /\ clock' = clock - Resolution /\ mishap = "clock_set_back"
         /\ standing' = IF library = "down" /\ standing = "own" THEN "doubted"
                        ELSE IF library = "down" THEN standing ELSE "reused"
  BY DEF Advance, SetBack, sequence
<1>3. UuidTypeOK'
  BY <1>1, <1>2, UuidAssumption DEF UuidInv, UuidTypeOK
<1>4. clock' = clock + Resolution => \A c : Behind(c) => Behind(c)'
  <2> SUFFICES ASSUME clock' = clock + Resolution, NEW c, Behind(c) PROVE Behind(c)'
    OBVIOUS
  <2>1. \A i \in DOMAIN issued : issued[i].time \in Int
    BY IssuedType DEF UuidInv
  <2> QED BY <1>1, <2>1, UuidAssumption DEF Behind, UuidInv, UuidTypeOK
<1>5. Current' = Current
  BY <1>1 DEF Current, Rotated
<1>6. Generations'
  <2> SUFFICES ASSUME mishap # "file_lost" PROVE Generations'
    BY <1>1 DEF Generations
  <2>1. standing' = "own" => Behind(Current)'
    <3> SUFFICES ASSUME standing' = "own" PROVE Behind(Current)'
      OBVIOUS
    <3>1. Behind(Current) /\ clock' = clock + Resolution
      BY <1>2 DEF UuidInv, Generations
    <3> QED BY <3>1, <1>4, <1>5 DEF Behind
  <2>2. /\ library' # "down" => standing' # "doubted"
        /\ rounds' >= ClockSeqs => standing' = "reused"
    BY <1>1, <1>2 DEF UuidInv, Generations, UuidTypeOK
  <2>3. rounds < ClockSeqs => \A i \in DOMAIN issued' : Given(i)'
    BY <1>1 DEF UuidInv, Generations, Given, Rotated
  <2> QED BY <1>1, <1>5, <2>1, <2>2, <2>3 DEF UuidInv, Generations
<1>7. Forward'
  BY <1>1, <1>2, <1>4 DEF UuidInv, Forward
<1> QED BY <1>3, <1>6, <1>7 DEF UuidInv

LEMMA UuidStutterKeeps ==
  ASSUME UuidInv, UNCHANGED uuidVars
  PROVE  UuidInv'
BY DEF UuidInv, uuidVars, file, static, sequence, UuidTypeOK, Generations, Current, Given,
       Rotated, Forward, Behind

LEMMA UuidStepKeeps ==
  ASSUME UuidInv, [UuidNext]_uuidVars
  PROVE  UuidInv'
<1>1. CASE BeginInit
  <2>1. ReadState \/ NewState
    BY <1>1 DEF BeginInit
  <2> QED BY <1>1, <2>1, ReadKeeps, NewKeeps
<1> QED BY <1>1, LibraryKeeps, CreateKeeps, ClockKeeps, UuidStutterKeeps DEF UuidNext

(* A UUID that is given again was given in a crowded call, with a clock     *)
(* sequence that had its time before, or after one that was counted past    *)
(* its reading, whatever is restarted and whenever: the clock sequence      *)
(* changes when a start sees the clock set back (uuid.c:88), and the clock  *)
(* or the counter goes on between two UUIDs otherwise.                      *)
THEOREM RepeatsAreExplained == UuidSpec => RepeatsExplained
<1>1. UuidInv /\ [UuidNext]_uuidVars =>
        [uuid_create =>
           \A i \in DOMAIN issued :
             issued[i].time = Timestamp /\ issued[i].cs = state.cs =>
               Crowded \/ standing = "reused" \/ issued[i].over]_uuidVars
  <2> SUFFICES ASSUME UuidInv, uuid_create, NEW i \in DOMAIN issued, issued[i].time = Timestamp,
                      issued[i].cs = state.cs, ~Crowded, standing # "reused", ~issued[i].over
               PROVE  FALSE
    OBVIOUS
  <2>1. library = "up" /\ UuidTypeOK
    BY DEF uuid_create, UuidInv
  <2>2. Behind(state.cs)
    <3>1. CASE mishap = "file_lost"
      BY <3>1, <2>1 DEF UuidInv, Forward, UuidTypeOK
    <3>2. CASE mishap # "file_lost"
      <4>1. standing = "own" /\ ~(rounds >= ClockSeqs)
        BY <2>1, <3>2 DEF UuidInv, Generations, UuidTypeOK
      <4>2. state.cs = Current
        BY <2>1, <3>2, <4>1, UuidAssumption DEF UuidInv, Generations, UuidTypeOK
      <4> QED BY <3>2, <4>1, <4>2 DEF UuidInv, Generations
    <3> QED BY <3>1, <3>2
  <2>3. issued[i].time < Timestamp
    BY <2>2, NewIsLater
  <2> QED BY <2>1, <2>3, TickType
<1> QED BY <1>1, UuidStarts, UuidStepKeeps, PTL DEF UuidSpec, RepeatsExplained

-----------------------------------------------------------------------------
(* TimeUtil: gregorian2sec counts the seconds since the epoch on every day  *)
(* of the Gregorian calendar from 1970 on, at any time of the day.          *)

Date == [year : Nat, month : 1 .. 12, mday : 1 .. 31]
Time == [hour : 0 .. 23, minute : 0 .. 59, second : 0 .. 59]

(* The day number that gregorian2sec computes for a date.                   *)
Number(y, m, k) == DayNumber(MarchYear(y, m), MarchMonth(m), k)

DayInv ==
  /\ date \in Date
  /\ date.year >= 1970
  /\ date.mday <= DaysIn(date.year, date.month)
  /\ elapsed \in Nat
  /\ Number(date.year, date.month, date.mday) = elapsed
  /\ filled \in BOOLEAN
  /\ filled => \E t \in Time : date_time = Filled(date, t)
  /\ SecondsSinceEpoch

-----------------------------------------------------------------------------
LEMMA EpochType == EpochDays \in Int
BY SMT DEF EpochDays

(* A year has a leap day where the three quotients say so.                  *)
LEMMA LeapDay ==
  ASSUME NEW y \in Nat, y > 0
  PROVE  (y \div 4 - y \div 100 + y \div 400)
           - ((y - 1) \div 4 - (y - 1) \div 100 + (y - 1) \div 400)
         = IF IsLeap(y) THEN 1 ELSE 0
<1>1. y \div 4 - (y - 1) \div 4 = IF y % 4 = 0 THEN 1 ELSE 0
  OBVIOUS
<1>2. y \div 100 - (y - 1) \div 100 = IF y % 100 = 0 THEN 1 ELSE 0
  OBVIOUS
<1>3. y \div 400 - (y - 1) \div 400 = IF y % 400 = 0 THEN 1 ELSE 0
  OBVIOUS
<1>4. (y % 100 = 0 => y % 4 = 0) /\ (y % 400 = 0 => y % 100 = 0)
  OBVIOUS
<1>5. /\ y \div 4 \in Int /\ (y - 1) \div 4 \in Int
      /\ y \div 100 \in Int /\ (y - 1) \div 100 \in Int
      /\ y \div 400 \in Int /\ (y - 1) \div 400 \in Int
  OBVIOUS
<1> QED BY <1>1, <1>2, <1>3, <1>4, <1>5 DEF IsLeap

(* The day after the last of a month is one more, at each end of a month.   *)
LEMMA NextMonth ==
  ASSUME NEW y \in Nat, y > 0, NEW m \in 1 .. 11
  PROVE  Number(y, m + 1, 1)
         = Number(y, m, DaysIn(y, m)) + 1
<1>1. DaysIn(y, m) \in Int
  BY DEF DaysIn
<1>2. CASE m = 2
  <2>1. DaysIn(y, m) = IF IsLeap(y) THEN 29 ELSE 28
    BY <1>2 DEF DaysIn
  <2>2. /\ y \div 4 \in Int /\ (y - 1) \div 4 \in Int
        /\ y \div 100 \in Int /\ (y - 1) \div 100 \in Int
        /\ y \div 400 \in Int /\ (y - 1) \div 400 \in Int
    OBVIOUS
  <2>3. (367 * 1) \div 12 = 30 /\ (367 * 12) \div 12 = 367
    OBVIOUS
  <2>4. MarchYear(y, 3) = y /\ MarchMonth(3) = 1
        /\ MarchYear(y, 2) = y - 1 /\ MarchMonth(2) = 12
    BY DEF MarchYear, MarchMonth, LastYears
  <2>5. Number(y, 3, 1) = y \div 4 - y \div 100 + y \div 400 + 30 + 1 + y * 365 - EpochDays
    <3>1. Number(y, 3, 1) = DayNumber(y, 1, 1)
      BY <2>4 DEF Number
    <3>2. DayNumber(y, 1, 1) = y \div 4 - y \div 100 + y \div 400 + 30 + 1 + y * 365 - EpochDays
      BY <2>3 DEF DayNumber
    <3> QED BY <3>1, <3>2
  <2>6. Number(y, 2, DaysIn(y, m)) =
          (y - 1) \div 4 - (y - 1) \div 100 + (y - 1) \div 400 + 367 + DaysIn(y, m)
          + (y - 1) * 365 - EpochDays
    <3>1. Number(y, 2, DaysIn(y, m)) = DayNumber(y - 1, 12, DaysIn(y, m))
      BY <2>4 DEF Number
    <3> DEFINE b == y - 1  last == DaysIn(y, m)
    <3>2. b \in Int /\ last \in Int
      BY <1>1
    <3>3. Number(y, 2, last) = DayNumber(b, 12, last)
      BY <3>1
    <3> HIDE DEF b, last
    <3>4. DayNumber(b, 12, last) =
            b \div 4 - b \div 100 + b \div 400 + 367 + last + b * 365 - EpochDays
      BY <2>3, <3>2, EpochType DEF DayNumber
    <3>5. Number(y, 2, last) =
            b \div 4 - b \div 100 + b \div 400 + 367 + last + b * 365 - EpochDays
      BY <3>3, <3>4
    <3> QED BY <3>5 DEF b, last
  <2> QED BY <1>1, <1>2, <2>1, <2>2, <2>5, <2>6, LeapDay, EpochType
<1>3. CASE m # 2
  <2>1. DaysIn(y, m) = IF m \in {4, 6, 9, 11} THEN 30 ELSE 31
    BY <1>3 DEF DaysIn
  <2>2. MarchYear(y, m + 1) = MarchYear(y, m) /\ MarchYear(y, m) \in Int
        /\ MarchMonth(m + 1) = MarchMonth(m) + 1 /\ MarchMonth(m) \in 1 .. 11
    BY <1>3 DEF MarchYear, MarchMonth, LastYears
  <2>3. (367 * MarchMonth(m + 1)) \div 12 + 1
        = (367 * MarchMonth(m)) \div 12 + DaysIn(y, m) + 1
    BY <1>3, <2>1 DEF MarchMonth, LastYears
  <2>4. \A a \in Int : a \div 4 \in Int /\ a \div 100 \in Int /\ a \div 400 \in Int
    OBVIOUS
  <2>5. (367 * MarchMonth(m)) \div 12 \in Int /\ (367 * MarchMonth(m + 1)) \div 12 \in Int
    BY <2>2
  <2> QED BY <1>1, <2>2, <2>3, <2>4, <2>5, EpochType DEF Number, DayNumber
<1> QED BY <1>2, <1>3

LEMMA NextYear ==
  ASSUME NEW y \in Nat, y > 0
  PROVE  Number(y + 1, 1, 1)
         = Number(y, 12, 31) + 1
<1>1. (367 * 11) \div 12 = 336 /\ (367 * 10) \div 12 = 305
  OBVIOUS
<1>2. y \div 4 \in Int /\ y \div 100 \in Int /\ y \div 400 \in Int
  OBVIOUS
<1>3. MarchYear(y + 1, 1) = y /\ MarchMonth(1) = 11
      /\ MarchYear(y, 12) = y /\ MarchMonth(12) = 10
  BY DEF MarchYear, MarchMonth, LastYears
<1> QED BY <1>1, <1>2, <1>3, EpochType DEF Number, DayNumber

LEMMA NextDateIsOneMore ==
  ASSUME NEW d \in Date, d.year >= 1970, d.mday <= DaysIn(d.year, d.month)
  PROVE  /\ NextDate(d) \in Date
         /\ NextDate(d).year >= 1970
         /\ NextDate(d).mday <= DaysIn(NextDate(d).year, NextDate(d).month)
         /\ Number(NextDate(d).year, NextDate(d).month, NextDate(d).mday)
            = Number(d.year, d.month, d.mday) + 1
<1> DEFINE y == d.year  m == d.month  k == d.mday
<1>1. y \in Nat /\ y > 0 /\ m \in 1 .. 12 /\ k \in 1 .. 31
      /\ d = [year |-> y, month |-> m, mday |-> k]
  BY DEF Date
<1>2. \A x \in Nat, n \in 1 .. 12 : DaysIn(x, n) \in 28 .. 31
  BY DEF DaysIn
<1>3. CASE k < DaysIn(y, m)
  <2>1. NextDate(d) = [year |-> y, month |-> m, mday |-> k + 1]
    BY <1>1, <1>3 DEF NextDate
  <2>2. k + 1 \in 1 .. 31 /\ k + 1 <= DaysIn(y, m)
    <3>1. DaysIn(y, m) \in 28 .. 31
      <4>1. y \in Nat /\ m \in 1 .. 12
        BY <1>1
      <4> HIDE DEF y, m
      <4> QED BY <4>1, <1>2
    <3>2. k \in 1 .. 31
      BY <1>1
    <3> HIDE DEF k, y, m
    <3> QED BY <3>1, <3>2, <1>3
  <2>3. Number(y, m, k + 1)
        = Number(y, m, k) + 1
    <3>1. MarchYear(y, m) \in Int /\ MarchMonth(m) \in Int
      BY <1>1 DEF MarchYear, MarchMonth, LastYears
    <3>2. \A a \in Int : a \div 4 \in Int /\ a \div 100 \in Int /\ a \div 400 \in Int
                           /\ a * 365 \in Int /\ (367 * a) \div 12 \in Int
      OBVIOUS
    <3> QED BY <1>1, <3>1, <3>2, EpochType DEF Number, DayNumber
  <2> QED BY <1>1, <2>1, <2>2, <2>3 DEF Date
<1>4. CASE k = DaysIn(y, m) /\ m < 12
  <2>1. NextDate(d) = [year |-> y, month |-> m + 1, mday |-> 1]
    BY <1>1, <1>2, <1>4 DEF NextDate
  <2>2. m \in 1 .. 11 /\ m + 1 \in 1 .. 12 /\ 1 <= DaysIn(y, m + 1)
    BY <1>1, <1>2, <1>4
  <2>3. Number(NextDate(d).year, NextDate(d).month, NextDate(d).mday)
            = Number(d.year, d.month, d.mday) + 1
    BY <1>1, <1>4, <2>1, <2>2, NextMonth
  <2> QED BY <1>1, <2>1, <2>2, <2>3 DEF Date
<1>5. CASE k = DaysIn(y, m) /\ m = 12
  <2>1. NextDate(d) = [year |-> y + 1, month |-> 1, mday |-> 1]
    BY <1>1, <1>2, <1>5 DEF NextDate
  <2>2. DaysIn(y, 12) = 31 /\ 1 <= DaysIn(y + 1, 1)
    BY DEF DaysIn
  <2>3. Number(NextDate(d).year, NextDate(d).month, NextDate(d).mday)
            = Number(d.year, d.month, d.mday) + 1
    BY <1>1, <1>5, <2>1, <2>2, NextYear
  <2> QED BY <1>1, <2>1, <2>2, <2>3 DEF Date
<1> QED BY <1>1, <1>2, <1>3, <1>4, <1>5

-----------------------------------------------------------------------------
LEMMA DayStarts == TimeInit => DayInv
<1> SUFFICES ASSUME TimeInit PROVE DayInv
  OBVIOUS
<1>1. date = [year |-> 1970, month |-> 1, mday |-> 1] /\ elapsed = 0 /\ filled = TRUE
  BY DEF TimeInit
<1>2. date \in Date /\ date.year >= 1970 /\ date.mday <= DaysIn(date.year, date.month)
  BY <1>1 DEF Date, DaysIn
<1>3. Number(date.year, date.month, date.mday) = 0
  <2>1. MarchYear(1970, 1) = 1969 /\ MarchMonth(1) = 11
    BY DEF MarchYear, MarchMonth, LastYears
  <2>2. DayNumber(1969, 11, 1) = 0
    BY SMT DEF DayNumber, EpochDays
  <2> QED BY <1>1, <2>1, <2>2 DEF Number
<1>4. \E t \in Time : date_time = Filled(date, t)
  BY TimeAssumption DEF TimeInit, Time
<1> QED BY <1>1, <1>2, <1>3, <1>4 DEF DayInv, SecondsSinceEpoch

(* The conversion of a date at a time of day.                               *)
LEMMA ConvertKeeps ==
  ASSUME DayInv, gregorian2sec
  PROVE  DayInv'
<1>1. UNCHANGED <<date, elapsed>> /\ filled' = FALSE
  BY DEF gregorian2sec
<1>2. PICK t \in Time : date_time = Filled(date, t)
  BY DEF gregorian2sec, DayInv
<1> DEFINE a == date_time'
<1>3. /\ a.hour = t.hour /\ a.minute = t.minute /\ a.second = t.second
      /\ a.year = MarchYear(date.year, date.month)
      /\ a.month = MarchMonth(date.month) /\ a.mday = date.mday
  BY <1>2 DEF gregorian2sec, Filled
<1>4. Number(date.year, date.month, date.mday) = elapsed /\ elapsed \in Nat
  BY DEF DayInv
<1>5. t.hour \in Nat /\ t.minute \in Nat /\ t.second \in Nat
  BY DEF Time
<1>6. seconds' = elapsed * 86400 + SecondOfDay(a)
  <2>1. seconds' = ((elapsed * 24 + t.hour) * 60 + t.minute) * 60 + t.second
    BY <1>3, <1>4 DEF gregorian2sec, Seconds, Number
  <2>2. SecondOfDay(a) = (t.hour * 60 + t.minute) * 60 + t.second
    BY <1>3 DEF SecondOfDay
  <2> QED BY <2>1, <2>2, <1>4, <1>5
<1>7. SecondsSinceEpoch'
  BY <1>1, <1>6 DEF SecondsSinceEpoch, SecondOfDay
<1>8. filled' \in BOOLEAN /\ ~filled'
  BY <1>1
<1> HIDE DEF a
<1> QED BY <1>1, <1>7, <1>8 DEF DayInv, Number, DayNumber, MarchYear, MarchMonth,
           LastYears, DaysIn, IsLeap

LEMMA NextDayKeeps ==
  ASSUME DayInv, NextDay
  PROVE  DayInv'
<1>1. date' = NextDate(date) /\ elapsed' = elapsed + 1 /\ filled' = TRUE
      /\ \E t \in TimesOfDay : date_time' = Filled(NextDate(date), t)
  BY DEF NextDay
<1>2. /\ date' \in Date /\ date'.year >= 1970
      /\ date'.mday <= DaysIn(date'.year, date'.month)
      /\ Number(date'.year, date'.month, date'.mday) = elapsed + 1 /\ elapsed \in Nat
  BY <1>1, NextDateIsOneMore DEF DayInv
<1>3. \E t \in Time : date_time' = Filled(date', t)
  BY <1>1, TimeAssumption DEF Time
<1>4. Number(date.year, date.month, date.mday)' = Number(date'.year, date'.month, date'.mday)
  BY DEF Number, DayNumber, MarchYear, MarchMonth, LastYears
<1>5. DaysIn(date.year, date.month)' = DaysIn(date'.year, date'.month)
  BY DEF DaysIn, IsLeap
<1>6. (\E t \in Time : date_time = Filled(date, t))'
  BY <1>3 DEF Filled
<1> QED BY <1>1, <1>2, <1>4, <1>5, <1>6 DEF DayInv, SecondsSinceEpoch

LEMMA DayStutterKeeps ==
  ASSUME DayInv, UNCHANGED timeVars
  PROVE  DayInv'
BY DEF DayInv, timeVars, Number, DayNumber, MarchYear, MarchMonth, LastYears,
       DaysIn, IsLeap, Filled,
       SecondsSinceEpoch, SecondOfDay

(* gregorian2sec is right on every day, with no bound on the year: one walk *)
(* through the calendar reaches them all.                                   *)
THEOREM CountsSeconds == TimeSpec => []SecondsSinceEpoch
<1>1. DayInv => SecondsSinceEpoch
  BY DEF DayInv
<1>2. DayInv /\ [TimeNext]_timeVars => DayInv'
  BY ConvertKeeps, NextDayKeeps, DayStutterKeeps DEF TimeNext
<1> QED BY <1>1, <1>2, DayStarts, PTL DEF TimeSpec

-----------------------------------------------------------------------------
(* Md5: a context knows the whole blocks of what it was given and the bytes *)
(* behind them, for messages of any length in pieces of any lengths.        *)

(* Division with remainder.                                                 *)
LEMMA Quotient ==
  \A n \in Nat, d \in Nat \ {0} :
    n \div d \in Nat /\ n % d \in 0 .. d - 1 /\ n = (n \div d) * d + (n % d)
OBVIOUS

LEMMA Product == \A a, b \in Nat : a * b \in Nat
OBVIOUS

LEMMA Monotone == \A a, b, d \in Nat : a <= b => a * d <= b * d
OBVIOUS

(* Quotient and remainder are the only ones.                                *)
LEMMA OneQuotient ==
  ASSUME NEW d \in Nat \ {0}, NEW q \in Nat, NEW p \in Nat, NEW r \in 0 .. d - 1, NEW s \in 0 .. d - 1,
         q * d + r = p * d + s
  PROVE  q = p /\ r = s
<1>1. ASSUME NEW x \in Nat, NEW y \in Nat, NEW u \in 0 .. d - 1, NEW v \in 0 .. d - 1, x * d + u = y * d + v
      PROVE  ~(x < y)
  <2> SUFFICES ASSUME x < y PROVE FALSE
    OBVIOUS
  <2>1. (x + 1) * d <= y * d
    BY Monotone
  <2>2. (x + 1) * d = x * d + d
    OBVIOUS
  <2> DEFINE a == x * d
             b == y * d
  <2>3. a \in Nat /\ b \in Nat /\ a + d <= b /\ a + u = b + v
    BY <1>1, <2>1, <2>2, Product
  <2> HIDE DEF a, b
  <2> QED BY <2>3
<1>2. q = p
  BY <1>1
<1> QED BY <1>2, Product

Splits(n, d, q, r) == q \in Nat /\ r \in 0 .. d - 1 /\ n = q * d + r

LEMMA Reduced ==
  ASSUME NEW d \in Nat \ {0}, NEW n, NEW q, NEW r, Splits(n, d, q, r)
  PROVE  n \in Nat /\ n \div d = q /\ n % d = r
<1>1. q \in Nat /\ r \in 0 .. d - 1 /\ n = q * d + r
  BY DEF Splits
<1>2. n \in Nat
  BY <1>1, Product
<1> DEFINE p == n \div d
           s == n % d
<1>3. p \in Nat /\ s \in 0 .. d - 1 /\ n = p * d + s
  BY <1>2, Quotient
<1> HIDE DEF p, s
<1>4. p = q /\ s = r
  <2>1. q * d + r = p * d + s
    BY <1>1, <1>3
  <2> QED BY <1>1, <1>3, <2>1, OneQuotient
<1> QED BY <1>2, <1>4 DEF p, s

LEMMA Split ==
  ASSUME NEW d \in Nat \ {0}, NEW n \in Nat
  PROVE  Splits(n, d, n \div d, n % d)
BY Quotient DEF Splits

(* A sum that is reduced may be reduced before.                             *)
LEMMA SumReduced ==
  ASSUME NEW d \in Nat \ {0}, NEW a \in Nat, NEW b \in Nat
  PROVE  ((a % d) + b) % d = (a + b) % d
<1> DEFINE q == a \div d
           r == a % d
           p == (r + b) \div d
           s == (r + b) % d
<1>1. q \in Nat /\ r \in 0 .. d - 1 /\ a = q * d + r
  BY Quotient
<1>2. r + b \in Nat
  BY <1>1
<1>3. p \in Nat /\ s \in 0 .. d - 1 /\ r + b = p * d + s
  BY <1>2, Quotient
<1>4. a + b = (q + p) * d + s
  <2>1. (q + p) * d = q * d + p * d
    BY <1>1, <1>3
  <2> DEFINE x == q * d
             y == p * d
  <2>2. x \in Nat /\ y \in Nat /\ a = x + r /\ r + b = y + s
    BY <1>1, <1>3, Product
  <2> HIDE DEF x, y, q, r, p, s
  <2> QED BY <1>1, <1>3, <2>1, <2>2 DEF x, y
<1> HIDE DEF q, r, p, s
<1>5. Splits(a + b, d, q + p, s)
  BY <1>1, <1>3, <1>4 DEF Splits
<1>6. (a + b) % d = s
  BY <1>5, Reduced
<1> QED BY <1>6 DEF s, r

(* The two words of the bit count, and the place in the buffer.             *)
Carried(low, m, n, W) == low = ((m % W) + (n % W)) % W

LEMMA CountCarries ==
  ASSUME NEW W \in Nat \ {0}, NEW m \in Nat, NEW n \in Nat, NEW low, Carried(low, m, n, W)
  PROVE  /\ low = (m + n) % W
         /\ ((m \div W) % W) + (IF low < (n % W) THEN 1 ELSE 0) + (n \div W) \in Nat
         /\ (((m \div W) % W) + (IF low < (n % W) THEN 1 ELSE 0) + (n \div W)) % W = ((m + n) \div W) % W
<1> DEFINE g == m \div W
           c == m % W
           h == n \div W
           l == n % W
           k == IF low < l THEN 1 ELSE 0
<1>1. /\ g \in Nat /\ c \in 0 .. W - 1 /\ m = g * W + c
      /\ h \in Nat /\ l \in 0 .. W - 1 /\ n = h * W + l
  BY Quotient
<1>2. low = (c + l) % W
  BY DEF Carried
<1>3. g % W \in Nat
  BY <1>1, Quotient
<1> HIDE DEF g, c, h, l
<1>4. k \in Nat /\ low \in 0 .. W - 1 /\ c + l = k * W + low
  <2>1. CASE c + l < W
    <3>1. Splits(c + l, W, 0, c + l)
      BY <1>1, <2>1 DEF Splits
    <3>2. low = c + l
      BY <1>2, <3>1, Reduced
    <3>3. ~(low < l)
      BY <1>1, <3>2
    <3> QED BY <1>1, <3>1, <3>2, <3>3 DEF k, Splits
  <2>2. CASE ~(c + l < W)
    <3>1. Splits(c + l, W, 1, c + l - W)
      BY <1>1, <2>2 DEF Splits
    <3>2. low = c + l - W
      BY <1>2, <3>1, Reduced
    <3>3. low < l
      BY <1>1, <3>2
    <3> QED BY <1>1, <3>1, <3>2, <3>3 DEF k, Splits
  <2> QED BY <2>1, <2>2
<1> HIDE DEF k
<1>5. m + n = (g + h + k) * W + low
  <2>1. (g + h + k) * W = g * W + h * W + k * W
    BY <1>1, <1>4
  <2> DEFINE x == g * W
             y == h * W
             z == k * W
             t == (g + h + k) * W
  <2>2. /\ x \in Nat /\ y \in Nat /\ z \in Nat /\ t = x + y + z
        /\ m = x + c /\ n = y + l /\ c + l = z + low
    BY <1>1, <1>4, <2>1, Product
  <2> HIDE DEF x, y, z, t
  <2>3. m + n = t + low
    BY <1>1, <1>4, <2>2
  <2> QED BY <2>3 DEF t
<1>6. g + h + k \in Nat /\ (m + n) % W = low /\ (m + n) \div W = g + h + k
  <2>1. g + h + k \in Nat
    BY <1>1, <1>4
  <2>2. Splits(m + n, W, g + h + k, low)
    BY <1>4, <1>5, <2>1 DEF Splits
  <2> QED BY <2>1, <2>2, Reduced
<1>7. ((g % W) + (h + k)) % W = (g + (h + k)) % W
  <2> DEFINE e == h + k
  <2>1. e \in Nat
    BY <1>1, <1>4
  <2> HIDE DEF e
  <2>2. ((g % W) + e) % W = (g + e) % W
    BY <1>1, <2>1, SumReduced
  <2> QED BY <2>2 DEF e
<1>8. (g % W) + k + h = (g % W) + (h + k) /\ g + (h + k) = g + h + k
  BY <1>1, <1>3, <1>4
<1>9. (g % W) + k + h \in Nat
  BY <1>1, <1>3, <1>4
<1>10. ((g % W) + k + h) % W = ((m + n) \div W) % W
  BY <1>6, <1>7, <1>8
<1> QED BY <1>6, <1>9, <1>10 DEF g, k, h, l, c

LEMMA IndexOfCount ==
  ASSUME NEW n \in Nat
  PROVE  (((8 * n) % WordSize) \div 8) % BlockLen = n % BlockLen
<1> DEFINE W == WordSize
           B == BlockLen
           w == W \div (8 * B)
           g == (8 * n) \div W
           c == (8 * n) % W
<1>1. B \in Nat \ {0} /\ W \in Nat \ {0} /\ W % (8 * B) = 0
  BY Md5Assumption
<1>2. w \in Nat /\ W = w * (8 * B)
  <2> DEFINE d == 8 * B
  <2>1. d \in Nat \ {0}
    BY <1>1
  <2>2. W % d = 0 /\ w = W \div d
    BY <1>1
  <2> HIDE DEF W, d, w
  <2>3. w \in Nat /\ W = w * d + 0
    BY <1>1, <2>1, <2>2, Quotient
  <2>4. w * d \in Nat
    BY <2>1, <2>3, Product
  <2>5. W = w * d
    BY <2>3, <2>4
  <2> QED BY <2>3, <2>5 DEF d
<1>3. g \in Nat /\ c \in 0 .. W - 1 /\ 8 * n = g * W + c
  <2> DEFINE v == 8 * n
  <2>1. v \in Nat /\ g = v \div W /\ c = v % W
    OBVIOUS
  <2> HIDE DEF v, W, g, c
  <2>2. g \in Nat /\ c \in 0 .. W - 1 /\ v = g * W + c
    BY <1>1, <2>1, Quotient
  <2> QED BY <2>2 DEF v
<1> HIDE DEF W, B, w, g, c
<1> DEFINE x == g * w
           y == x * B
<1>4. x \in Nat /\ y \in Nat /\ g * W = 8 * y
  <2>1. x \in Nat /\ y \in Nat
    BY <1>1, <1>2, <1>3, Product
  <2>2. g * (w * (8 * B)) = 8 * ((g * w) * B)
    BY <1>1, <1>2, <1>3
  <2> QED BY <1>2, <2>1, <2>2
<1>5. y <= n /\ c = (n - y) * 8 + 0
  <2> HIDE DEF y, x
  <2> QED BY <1>3, <1>4
<1>6. n - y \in Nat
  BY <1>4, <1>5
<1>7. c \div 8 = n - y
  <2>1. Splits(c, 8, n - y, 0)
    BY <1>5, <1>6 DEF Splits
  <2> QED BY <2>1, Reduced
<1> DEFINE p == (n - y) \div B
           r == (n - y) % B
<1>8. p \in Nat /\ r \in 0 .. B - 1 /\ n - y = p * B + r
  BY <1>1, <1>6, Quotient
<1> HIDE DEF p, r
<1>9. n = (p + x) * B + r
  <2>1. (p + x) * B = p * B + y
    BY <1>1, <1>4, <1>8
  <2> DEFINE z == p * B
  <2>2. z \in Nat /\ n - y = z + r
    BY <1>1, <1>8, Product
  <2>3. n = z + y + r
    <3> HIDE DEF y, z
    <3> QED BY <1>4, <1>8, <2>2, <1>1
  <2> QED BY <2>1, <2>3
<1>10. n % B = r
  <2>1. p + x \in Nat
    BY <1>4, <1>8
  <2>2. Splits(n, B, p + x, r)
    BY <1>8, <1>9, <2>1 DEF Splits
  <2> QED BY <1>1, <2>2, Reduced
<1> QED BY <1>7, <1>10 DEF c, r, W, B

-----------------------------------------------------------------------------
Buffers(S) == [1 .. BlockLen -> S]
Contexts(S) == [count0 : Nat, count1 : Nat, buffer : Buffers(S), state : Seq(Buffers(S))]

(* The first q blocks of s, and the r bytes behind them.                    *)
BlocksOf(taken, s, q) ==
  Len(taken) = q /\ \A b \in 1 .. q, k \in 1 .. BlockLen : taken[b][k] = s[(b - 1) * BlockLen + k]
RestOf(buffer, s, q, r) == \A k \in 1 .. r : buffer[k] = s[q * BlockLen + k]

(* What a context knows of the bytes it was given.                          *)
Holds(c, s, S) ==
  /\ c \in Contexts(S)
  /\ c.count0 = (8 * Len(s)) % WordSize
  /\ c.count1 = ((8 * Len(s)) \div WordSize) % WordSize
  /\ BlocksOf(c.state, s, Len(s) \div BlockLen)
  /\ RestOf(c.buffer, s, Len(s) \div BlockLen, Len(s) % BlockLen)

LEMMA BlockLenIs == BlockLen \in Nat \ {0} /\ LengthLen \in 1 .. BlockLen - 1 /\ WordSize \in Nat \ {0}
BY Md5Assumption

IsCopy(new, buffer, i, bytes) ==
  \A k \in 1 .. BlockLen :
    /\ i < k /\ k <= i + Len(bytes) => new[k] = bytes[k - i]
    /\ k <= i => new[k] = buffer[k]

LEMMA Copied ==
  ASSUME NEW S, NEW buffer \in Buffers(S), NEW i \in Nat, NEW bytes \in Seq(S)
  PROVE  /\ MD5_memcpy(buffer, i, bytes) \in Buffers(S)
         /\ IsCopy(MD5_memcpy(buffer, i, bytes), buffer, i, bytes)
<1>1. Len(bytes) \in Nat
  OBVIOUS
<1>2. ASSUME NEW k \in 1 .. BlockLen, i < k, k <= i + Len(bytes) PROVE bytes[k - i] \in S
  <2>1. k - i \in 1 .. Len(bytes)
    BY <1>1, <1>2, BlockLenIs
  <2> QED BY <2>1, ElementOfSeq
<1>3. \A k \in 1 .. BlockLen : k <= i => ~(i < k)
  BY BlockLenIs
<1> QED BY <1>2, <1>3 DEF MD5_memcpy, Buffers, IsCopy

(* The n bytes of s behind the first a.                                     *)
Part(s, a, n) == SubSeq(s, a + 1, a + n)
Within(s, a, n) == a + n <= Len(s)
PartIs(part, s, a, n) == Len(part) = n /\ \A k \in 1 .. n : part[k] = s[a + k]

LEMMA Piece ==
  ASSUME NEW S, NEW s \in Seq(S), NEW a \in Nat, NEW n \in Nat, Within(s, a, n)
  PROVE  /\ Part(s, a, n) \in [1 .. n -> S] /\ Part(s, a, n) \in Seq(S)
         /\ PartIs(Part(s, a, n), s, a, n)
<1>0. a + n <= Len(s)
  BY DEF Within
<1>1. \A i \in a + 1 .. a + n : s[i] \in S
  <2> SUFFICES ASSUME NEW i \in a + 1 .. a + n PROVE s[i] \in S
    OBVIOUS
  <2>1. i \in 1 .. Len(s)
    BY <1>0
  <2> QED BY <2>1, ElementOfSeq
<1> DEFINE t == SubSeq(s, a + 1, a + n)
<1>2. t \in Seq(S) /\ Len(t) = n /\ \A k \in 1 .. n : t[k] = s[a + k]
  BY <1>0, <1>1
<1> HIDE DEF t
<1>3. t \in [1 .. n -> S]
  BY <1>2
<1> QED BY <1>2, <1>3 DEF t, Part, PartIs

LEMMA IsSequence ==
  ASSUME NEW X, NEW m \in Nat, NEW f, f = [b \in 1 .. m |-> f[b]], \A b \in 1 .. m : f[b] \in X
  PROVE  f \in Seq(X) /\ Len(f) = m
OBVIOUS

(* A block of s is a block of what s begins.                                *)
LEMMA InBlocks ==
  ASSUME NEW q \in Nat, NEW b \in 1 .. q, NEW k \in 1 .. BlockLen
  PROVE  (b - 1) * BlockLen + k \in 1 .. q * BlockLen
<1> DEFINE B == BlockLen
           x == (b - 1) * B
           y == b * B
           z == q * B
<1>1. B \in Nat \ {0} /\ b - 1 \in Nat /\ b \in Nat /\ b <= q
  BY BlockLenIs
<1>2. y = x + B
  BY <1>1
<1>3. x \in Nat /\ y \in Nat /\ z \in Nat /\ y <= z
  BY <1>1, Product, Monotone
<1> HIDE DEF B, x, y, z
<1>4. x + k \in 1 .. z
  BY <1>1, <1>2, <1>3 DEF B
<1> QED BY <1>4 DEF x, z, B

(* Input that does not fill the buffer.                                     *)
LEMMA FewBytes ==
  ASSUME NEW S, NEW s \in Seq(S), NEW input \in Seq(S), NEW c \in Contexts(S),
         NEW q, NEW r, Splits(Len(s), BlockLen, q, r),
         BlocksOf(c.state, s, q), RestOf(c.buffer, s, q, r), Len(input) < BlockLen - r
  PROVE  /\ Splits(Len(s \o input), BlockLen, q, r + Len(input))
         /\ BlocksOf(c.state, s \o input, q)
         /\ MD5_memcpy(c.buffer, r, input) \in Buffers(S)
         /\ RestOf(MD5_memcpy(c.buffer, r, input), s \o input, q, r + Len(input))
<1> DEFINE B == BlockLen
           n == Len(input)
           t == s \o input
           z == q * B
           buf == MD5_memcpy(c.buffer, r, input)
<1>1. B \in Nat \ {0} /\ q \in Nat /\ r \in Nat /\ r < B /\ Len(s) = z + r /\ z \in Nat
  BY BlockLenIs, Product DEF Splits
<1>2. /\ Len(t) = z + r + n /\ n \in Nat
      /\ \A i \in 1 .. z + r : t[i] = s[i]
      /\ \A i \in 1 .. n : t[z + r + i] = input[i]
  <2> HIDE DEF z
  <2> QED BY <1>1
<1>3. /\ buf \in Buffers(S)
      /\ \A k \in 1 .. B : /\ r < k /\ k <= r + n => buf[k] = input[k - r]
                           /\ k <= r => buf[k] = c.buffer[k]
  <2>1. c.buffer \in Buffers(S)
    BY DEF Contexts
  <2>2. buf \in Buffers(S) /\ IsCopy(buf, c.buffer, r, input)
    BY <1>1, <2>1, Copied
  <2> HIDE DEF z, buf
  <2> QED BY <2>2 DEF IsCopy
<1> HIDE DEF n, t, z, buf
<1>4. Splits(Len(t), B, q, r + n)
  BY <1>1, <1>2 DEF Splits, z, n
<1>5. BlocksOf(c.state, t, q)
  <2>1. ASSUME NEW b \in 1 .. q, NEW k \in 1 .. BlockLen PROVE c.state[b][k] = t[(b - 1) * BlockLen + k]
    <3>1. c.state[b][k] = s[(b - 1) * BlockLen + k]
      BY DEF BlocksOf
    <3>2. (b - 1) * BlockLen + k \in 1 .. z
      BY <1>1, InBlocks DEF z
    <3> DEFINE i == (b - 1) * BlockLen + k
    <3>3. i \in 1 .. z + r
      <4> HIDE DEF i
      <4> QED BY <1>1, <3>2 DEF i
    <3> QED BY <1>2, <3>1, <3>3
  <2> QED BY <2>1 DEF BlocksOf
<1>6. RestOf(buf, t, q, r + n)
  <2>1. ASSUME NEW k \in 1 .. r + n PROVE buf[k] = t[z + k]
    <3>0. k \in 1 .. B
      BY <1>1, <1>2 DEF n
    <3>1. CASE k <= r
      <4>1. k \in 1 .. r /\ z + k \in 1 .. z + r
        BY <1>1, <1>2, <3>1
      <4>2. buf[k] = c.buffer[k]
        BY <1>3, <3>0, <3>1
      <4>3. c.buffer[k] = s[z + k]
        BY <4>1 DEF RestOf, z
      <4>4. t[z + k] = s[z + k]
        BY <1>2, <4>1
      <4> QED BY <4>2, <4>3, <4>4
    <3>2. CASE ~(k <= r)
      <4>1. r < k /\ k <= r + n /\ k - r \in 1 .. n /\ z + r + (k - r) = z + k
        BY <1>1, <1>2, <3>2
      <4>2. buf[k] = input[k - r]
        BY <1>3, <3>0, <4>1
      <4>3. t[z + r + (k - r)] = input[k - r]
        BY <1>2, <4>1
      <4> QED BY <4>1, <4>2, <4>3
    <3> QED BY <3>1, <3>2
  <2> QED BY <2>1 DEF RestOf, z
<1> QED BY <1>3, <1>4, <1>5, <1>6 DEF n, t, buf

LEMMA Joined ==
  ASSUME NEW X, NEW A \in Seq(X), NEW x \in X, NEW C \in Seq(X)
  PROVE  /\ A \o (<<x>> \o C) \in Seq(X)
         /\ Len(A \o (<<x>> \o C)) = Len(A) + 1 + Len(C)
         /\ \A i \in 1 .. Len(A) : (A \o (<<x>> \o C))[i] = A[i]
         /\ (A \o (<<x>> \o C))[Len(A) + 1] = x
         /\ \A i \in 1 .. Len(C) : (A \o (<<x>> \o C))[Len(A) + 1 + i] = C[i]
<1> DEFINE D == <<x>> \o C
<1>1. D \in Seq(X) /\ Len(D) = 1 + Len(C) /\ D[1] = x /\ \A i \in 1 .. Len(C) : D[1 + i] = C[i]
  OBVIOUS
<1> HIDE DEF D
<1> DEFINE E == A \o D
<1>2. /\ E \in Seq(X) /\ Len(E) = Len(A) + Len(D)
      /\ \A i \in 1 .. Len(A) : E[i] = A[i]
      /\ \A i \in 1 .. Len(D) : E[Len(A) + i] = D[i]
  BY <1>1
<1> HIDE DEF E
<1>3. Len(A) \in Nat /\ Len(C) \in Nat
  OBVIOUS
<1>4. 1 \in 1 .. Len(D)
  BY <1>1, <1>3
<1>5. \A i \in 1 .. Len(C) : 1 + i \in 1 .. Len(D) /\ Len(A) + (1 + i) = Len(A) + 1 + i
  BY <1>1, <1>3
<1> QED BY <1>1, <1>2, <1>3, <1>4, <1>5 DEF E, D

BlockIs(block, s, q) == \A k \in 1 .. BlockLen : block[k] = s[q * BlockLen + k]
BlocksAre(blocks, input, p, m) ==
  Len(blocks) = m /\ \A b \in 1 .. m, k \in 1 .. BlockLen : blocks[b][k] = input[p + (b - 1) * BlockLen + k]
BytesAre(bytes, input, a, e) == \A k \in 1 .. e : bytes[k] = input[a + k]

LEMMA Appended ==
  ASSUME NEW S, NEW s \in Seq(S), NEW u \in Seq(S)
  PROVE  /\ s \o u \in Seq(S) /\ Len(s \o u) = Len(s) + Len(u) /\ Len(s) \in Nat /\ Len(u) \in Nat
         /\ \A i \in 1 .. Len(s) : (s \o u)[i] = s[i]
         /\ \A i \in 1 .. Len(u) : (s \o u)[Len(s) + i] = u[i]
OBVIOUS

(* Input that fills the buffer: the rest of the block first.                *)
LEMMA FirstBlock ==
  ASSUME NEW S, NEW s \in Seq(S), NEW input \in Seq(S), NEW buffer \in Buffers(S),
         NEW q, NEW r, Splits(Len(s), BlockLen, q, r), RestOf(buffer, s, q, r),
         NEW p, p = BlockLen - r, p <= Len(input)
  PROVE  /\ MD5_memcpy(buffer, r, SubSeq(input, 1, p)) \in Buffers(S)
         /\ BlockIs(MD5_memcpy(buffer, r, SubSeq(input, 1, p)), s \o input, q)
<1> DEFINE B == BlockLen
           n == Len(input)
           t == s \o input
           z == q * B
           head == SubSeq(input, 1, p)
           first == MD5_memcpy(buffer, r, head)
<1>1. B \in Nat \ {0} /\ q \in Nat /\ r \in Nat /\ r < B /\ Len(s) = z + r /\ z \in Nat
  BY BlockLenIs, Product DEF Splits
<1>2. p \in Nat /\ r + p = B /\ p <= n /\ n \in Nat
  BY <1>1
<1>3. head \in Seq(S) /\ Len(head) = p /\ \A k \in 1 .. p : head[k] = input[k]
  <2>1. PICK o \in Nat : o = 0
    OBVIOUS
  <2>2. Within(input, o, p)
    BY <1>2, <2>1 DEF Within
  <2>3. Part(input, o, p) \in Seq(S) /\ PartIs(Part(input, o, p), input, o, p)
    BY <1>2, <2>2, Piece
  <2>4. Part(input, o, p) = head /\ \A k \in 1 .. p : o + k = k
    BY <1>2, <2>1 DEF Part
  <2> HIDE DEF head
  <2> QED BY <2>3, <2>4 DEF PartIs
<1>4. /\ \A i \in 1 .. z + r : t[i] = s[i]
      /\ \A i \in 1 .. n : t[z + r + i] = input[i]
  BY <1>1, Appended
<1> HIDE DEF n, t, z, head
<1>5. /\ first \in Buffers(S)
      /\ \A k \in 1 .. BlockLen : /\ r < k /\ k <= r + p => first[k] = head[k - r]
                                  /\ k <= r => first[k] = buffer[k]
  <2>1. head \in Seq(S) /\ r \in Nat
    BY <1>1, <1>3
  <2>2. first \in Buffers(S) /\ IsCopy(first, buffer, r, head)
    BY <2>1, Copied
  <2> HIDE DEF first
  <2> QED BY <1>3, <2>2 DEF IsCopy
<1> HIDE DEF first
<1>6. ASSUME NEW k \in 1 .. BlockLen PROVE first[k] = t[z + k]
  <2>1. CASE k <= r
    <3>1. k \in 1 .. r /\ z + k \in 1 .. z + r
      BY <1>1, <2>1
    <3>2. buffer[k] = s[z + k]
      BY <3>1 DEF RestOf, z
    <3> QED BY <1>4, <1>5, <2>1, <3>1, <3>2
  <2>2. CASE ~(k <= r)
    <3>1. r < k /\ k <= r + p /\ k - r \in 1 .. p /\ z + r + (k - r) = z + k /\ k - r \in 1 .. n
      BY <1>1, <1>2, <2>2
    <3>2. head[k - r] = input[k - r]
      BY <1>3, <3>1
    <3>3. t[z + r + (k - r)] = input[k - r]
      BY <1>4, <3>1
    <3> QED BY <1>5, <3>1, <3>2, <3>3
  <2> QED BY <2>1, <2>2
<1> QED BY <1>5, <1>6 DEF BlockIs, first, head, t, z

(* Then whole blocks of the input.                                          *)
LEMMA InputBlocks ==
  ASSUME NEW S, NEW input \in Seq(S), NEW p \in Nat, NEW m, NEW e,
         Splits(Len(input) - p, BlockLen, m, e)
  PROVE  WholeBlocks(input, p) \in Seq(Buffers(S)) /\ BlocksAre(WholeBlocks(input, p), input, p, m)
<1> DEFINE B == BlockLen
           n == Len(input)
           u == m * B
           blocks == WholeBlocks(input, p)
<1>1. /\ B \in Nat \ {0} /\ m \in Nat /\ e \in Nat /\ e < B /\ n - p = u + e /\ u \in Nat /\ n \in Nat
  BY BlockLenIs, Product DEF Splits
<1>2. (Len(input) - p) \div BlockLen = m
  BY BlockLenIs, Reduced
<1>3. blocks = [b \in 1 .. m |-> SubSeq(input, p + (b - 1) * B + 1, p + b * B)]
  BY <1>2 DEF WholeBlocks
<1> HIDE DEF n, u, blocks
<1>4. ASSUME NEW b \in 1 .. m
      PROVE  /\ blocks[b] \in Buffers(S)
             /\ \A k \in 1 .. BlockLen : blocks[b][k] = input[p + (b - 1) * B + k]
  <2> DEFINE x == (b - 1) * B
             y == b * B
             a == p + x
  <2>1. b - 1 \in Nat /\ b \in Nat /\ b <= m
    BY <1>1
  <2>2. x \in Nat /\ y = x + B /\ y <= u
    BY <1>1, <2>1, Monotone, Product DEF u
  <2>3. blocks[b] = SubSeq(input, a + 1, p + y)
    BY <1>3
  <2> HIDE DEF x, y
  <2>4. a \in Nat /\ p + y = a + B /\ a + B <= n /\ B \in Nat
    BY <1>1, <2>2
  <2> HIDE DEF a, B
  <2>5. Within(input, a, B)
    BY <2>4 DEF Within, n
  <2>6. Part(input, a, B) \in [1 .. B -> S] /\ PartIs(Part(input, a, B), input, a, B)
    BY <2>4, <2>5, Piece
  <2>7. blocks[b] = Part(input, a, B)
    BY <2>3, <2>4 DEF Part
  <2>8. blocks[b] \in [1 .. B -> S] /\ \A k \in 1 .. B : blocks[b][k] = input[a + k]
    BY <2>6, <2>7 DEF PartIs
  <2> QED BY <2>8 DEF a, x, B, Buffers
<1>5. blocks \in Seq(Buffers(S)) /\ Len(blocks) = m
  <2>1. blocks = [b \in 1 .. m |-> blocks[b]]
    BY <1>3
  <2>2. \A b \in 1 .. m : blocks[b] \in Buffers(S)
    BY <1>4
  <2> QED BY <1>1, <2>1, <2>2, IsSequence
<1> QED BY <1>4, <1>5 DEF BlocksAre, blocks

(* And what goes to the buffer again.                                       *)
LEMMA LastBytes ==
  ASSUME NEW S, NEW input \in Seq(S), NEW buffer \in Buffers(S), NEW a \in Nat, NEW e \in Nat,
         a + e = Len(input), e <= BlockLen
  PROVE  /\ MD5_memcpy(buffer, 0, SubSeq(input, a + 1, Len(input))) \in Buffers(S)
         /\ BytesAre(MD5_memcpy(buffer, 0, SubSeq(input, a + 1, Len(input))), input, a, e)
<1> DEFINE tail == SubSeq(input, a + 1, a + e)
           last == MD5_memcpy(buffer, 0, tail)
<1>1. tail \in Seq(S) /\ Len(tail) = e /\ \A k \in 1 .. e : tail[k] = input[a + k]
  <2>1. Within(input, a, e)
    BY DEF Within
  <2>2. Part(input, a, e) \in Seq(S) /\ PartIs(Part(input, a, e), input, a, e)
    BY <2>1, Piece
  <2>3. tail = Part(input, a, e)
    BY DEF Part
  <2> HIDE DEF tail
  <2> QED BY <2>2, <2>3 DEF PartIs
<1> HIDE DEF tail
<1>2. /\ last \in Buffers(S)
      /\ \A k \in 1 .. BlockLen : 0 < k /\ k <= 0 + e => last[k] = tail[k - 0]
  <2>1. tail \in Seq(S)
    BY <1>1
  <2>o. PICK o \in Nat : o = 0
    OBVIOUS
  <2>3. MD5_memcpy(buffer, o, tail) \in Buffers(S) /\ IsCopy(MD5_memcpy(buffer, o, tail), buffer, o, tail)
    BY <2>1, Copied
  <2>2. /\ last \in Buffers(S)
        /\ \A k \in 1 .. BlockLen : 0 < k /\ k <= 0 + Len(tail) => last[k] = tail[k - 0]
    BY <2>o, <2>3 DEF IsCopy
  <2> HIDE DEF last
  <2> QED BY <1>1, <2>2
<1> HIDE DEF last
<1>3. ASSUME NEW k \in 1 .. e PROVE last[k] = input[a + k]
  <2>1. k \in 1 .. BlockLen /\ 0 < k /\ k <= 0 + e /\ k - 0 = k
    BY BlockLenIs
  <2> QED BY <1>1, <1>2, <2>1
<1> QED BY <1>2, <1>3 DEF BytesAre, last, tail

LEMMA ManyBytes ==
  ASSUME NEW S, NEW s \in Seq(S), NEW input \in Seq(S), NEW taken \in Seq(Buffers(S)),
         NEW q, NEW r, Splits(Len(s), BlockLen, q, r), BlocksOf(taken, s, q),
         NEW p, p = BlockLen - r, p <= Len(input),
         NEW m, NEW e, Splits(Len(input) - p, BlockLen, m, e),
         NEW first \in Buffers(S), NEW last \in Buffers(S), NEW blocks \in Seq(Buffers(S)),
         BlockIs(first, s \o input, q), BlocksAre(blocks, input, p, m),
         BytesAre(last, input, p + m * BlockLen, e)
  PROVE  /\ Splits(Len(s \o input), BlockLen, q + 1 + m, e)
         /\ taken \o (<<first>> \o blocks) \in Seq(Buffers(S))
         /\ BlocksOf(taken \o (<<first>> \o blocks), s \o input, q + 1 + m)
         /\ RestOf(last, s \o input, q + 1 + m, e)
<1> DEFINE B == BlockLen
           n == Len(input)
           t == s \o input
           z == q * B
           u == m * B
           new == taken \o (<<first>> \o blocks)
<1>1. /\ B \in Nat \ {0} /\ q \in Nat /\ r \in Nat /\ r < B /\ Len(s) = z + r /\ z \in Nat
      /\ m \in Nat /\ e \in Nat /\ e < B /\ n - p = u + e /\ u \in Nat /\ n \in Nat
  <2>1. B \in Nat \ {0} /\ q \in Nat /\ r \in Nat /\ r < B /\ Len(s) = z + r
    BY BlockLenIs DEF Splits
  <2>2. m \in Nat /\ e \in Nat /\ e < B /\ n - p = u + e
    BY BlockLenIs DEF Splits
  <2> QED BY <2>1, <2>2, Product
<1>2. /\ Len(t) = z + r + n
      /\ \A i \in 1 .. z + r : t[i] = s[i]
      /\ \A i \in 1 .. n : t[z + r + i] = input[i]
  <2> HIDE DEF z, u
  <2>1. Len(s) = z + r
    BY <1>1
  <2>2. /\ Len(s \o input) = Len(s) + Len(input)
        /\ \A i \in 1 .. Len(s) : (s \o input)[i] = s[i]
        /\ \A i \in 1 .. Len(input) : (s \o input)[Len(s) + i] = input[i]
    BY Appended
  <2> QED BY <2>1, <2>2
<1>3. (q + 1 + m) * B = z + B + u /\ q + 1 + m \in Nat
  <2>1. q \in Nat /\ m \in Nat /\ B \in Nat
    BY <1>1
  <2> QED BY <2>1
<1> HIDE DEF n, t, z, u, new
<1>4. p \in Nat /\ r + p = B /\ n = p + u + e
  BY <1>1
<1>5. Len(taken) = q /\ first \in Buffers(S)
  BY DEF BlocksOf
<1>6. /\ new \in Seq(Buffers(S)) /\ Len(new) = q + 1 + m
      /\ \A i \in 1 .. q : new[i] = taken[i]
      /\ new[q + 1] = first
      /\ \A i \in 1 .. m : new[q + 1 + i] = blocks[i]
  <2>1. Len(taken) = q /\ Len(blocks) = m
    BY <1>5 DEF BlocksAre
  <2>2. /\ new \in Seq(Buffers(S)) /\ Len(new) = Len(taken) + 1 + Len(blocks)
        /\ \A i \in 1 .. Len(taken) : new[i] = taken[i]
        /\ new[Len(taken) + 1] = first
        /\ \A i \in 1 .. Len(blocks) : new[Len(taken) + 1 + i] = blocks[i]
    BY Joined DEF new
  <2> QED BY <2>1, <2>2
<1>7. BlocksOf(new, t, q + 1 + m)
  <2>1. ASSUME NEW b \in 1 .. q + 1 + m, NEW k \in 1 .. BlockLen PROVE new[b][k] = t[(b - 1) * BlockLen + k]
    <3>1. CASE b \in 1 .. q
      <4>1. new[b][k] = s[(b - 1) * BlockLen + k]
        BY <1>6, <3>1 DEF BlocksOf
      <4>2. (b - 1) * BlockLen + k \in 1 .. z
        BY <1>1, <3>1, InBlocks DEF z
      <4> DEFINE i == (b - 1) * BlockLen + k
      <4>3. i \in 1 .. z + r
        <5> HIDE DEF i
        <5> QED BY <1>1, <4>2 DEF i
      <4> QED BY <1>2, <4>1, <4>3
    <3>2. CASE b = q + 1
      <4>1. (b - 1) * BlockLen = z
        <5>1. b - 1 = q
          BY <1>1, <3>2
        <5> QED BY <5>1 DEF z
      <4>2. first[k] = t[z + k]
        BY DEF BlockIs, t, z
      <4> QED BY <1>6, <3>2, <4>1, <4>2
    <3>3. CASE b \notin 1 .. q /\ b # q + 1
      <4> DEFINE i == b - (q + 1)
                 x == (i - 1) * B
                 j == p + x + k
      <4>1. i \in 1 .. m /\ b = q + 1 + i
        <5>1. b \in 1 .. q + 1 + m /\ q \in Nat /\ m \in Nat
          BY <1>1
        <5> QED BY <5>1, <3>3
      <4>2. (b - 1) * BlockLen = z + B + x
        <5>1. b - 1 = q + 1 + (i - 1) /\ i - 1 \in Nat /\ q \in Nat /\ B \in Nat
          BY <1>1, <4>1
        <5> DEFINE g == i - 1
        <5>2. g \in Nat /\ b - 1 = q + 1 + g /\ x = g * B
          BY <5>1
        <5> HIDE DEF g, x
        <5>3. (q + 1 + g) * B = q * B + B + g * B
          BY <5>1, <5>2
        <5> QED BY <5>2, <5>3 DEF z
      <4>3. x \in Nat /\ x + k \in 1 .. u
        <5>1. i - 1 \in Nat /\ B \in Nat
          BY <1>1, <4>1
        <5> HIDE DEF i
        <5>2. x \in Nat
          BY <5>1, Product
        <5>3. (i - 1) * BlockLen + k \in 1 .. m * BlockLen
          BY <1>1, <4>1, InBlocks
        <5> QED BY <5>2, <5>3 DEF u
      <4> HIDE DEF i
      <4>4. new[b] = blocks[i]
        BY <1>6, <4>1
      <4>5. blocks[i][k] = input[j]
        BY <4>1 DEF BlocksAre
      <4> HIDE DEF x
      <4>6. j \in 1 .. n /\ z + r + j = z + B + x + k
        BY <1>1, <1>4, <4>3
      <4> HIDE DEF j
      <4> QED BY <1>2, <4>2, <4>4, <4>5, <4>6
    <3> QED BY <3>1, <3>2, <3>3
  <2> QED BY <1>6, <2>1 DEF BlocksOf
<1>8. RestOf(last, t, q + 1 + m, e)
  <2>1. ASSUME NEW k \in 1 .. e PROVE last[k] = t[(q + 1 + m) * BlockLen + k]
    <3> DEFINE j == p + u + k
    <3>1. j \in 1 .. n /\ z + r + j = z + B + u + k
      <4>1. k \in Nat /\ 1 <= k /\ k <= e
        BY <1>1
      <4> QED BY <1>1, <1>4, <4>1
    <3>2. last[k] = input[j]
      BY DEF BytesAre, u
    <3> HIDE DEF j
    <3> QED BY <1>2, <1>3, <3>1, <3>2
  <2> QED BY <2>1 DEF RestOf
<1>9. Splits(Len(t), B, q + 1 + m, e)
  <2> DEFINE w == (q + 1 + m) * B
  <2>1. w = z + B + u
    BY <1>3
  <2> HIDE DEF w
  <2>2. z + r + n = w + e
    BY <1>1, <1>4, <2>1
  <2> QED BY <1>1, <1>2, <1>3, <2>2 DEF Splits, w
<1> QED BY <1>6, <1>7, <1>8, <1>9 DEF t, new

-----------------------------------------------------------------------------
LEMMA IndexHolds ==
  ASSUME NEW S, NEW s \in Seq(S), NEW c, Holds(c, s, S)
  PROVE  Index(c) = Len(s) % BlockLen
<1>1. Len(s) \in Nat /\ c.count0 = (8 * Len(s)) % WordSize
  BY DEF Holds
<1>2. (((8 * Len(s)) % WordSize) \div 8) % BlockLen = Len(s) % BlockLen
  BY <1>1, IndexOfCount
<1> QED BY <1>1, <1>2 DEF Index

(* What MD5Update does to what a context knows.                             *)
LEMMA UpdateHolds ==
  ASSUME NEW S, NEW s \in Seq(S), NEW input \in Seq(S), NEW c, Holds(c, s, S)
  PROVE  s \o input \in Seq(S) /\ Holds(MD5Update(c, input), s \o input, S)
<1> DEFINE B == BlockLen
           W == WordSize
           t == s \o input
           a == Len(s)
           n == Len(input)
           d == MD5Update(c, input)
           q == a \div B
           r == a % B
           p == B - r
           m == (n - p) \div B
           e == (n - p) % B
           i == p + B * m
           first == MD5_memcpy(c.buffer, r, SubSeq(input, 1, p))
           blocks == WholeBlocks(input, p)
           last == MD5_memcpy(first, 0, SubSeq(input, i + 1, n))
           part == MD5_memcpy(c.buffer, r, input)
<1>1. B \in Nat \ {0} /\ W \in Nat \ {0} /\ a \in Nat /\ n \in Nat
  BY BlockLenIs
<1>2. t \in Seq(S) /\ Len(t) = a + n
  BY Appended
<1>3. Splits(a, B, q, r) /\ q \in Nat /\ r \in Nat /\ r < B
  <2> HIDE DEF a
  <2>1. Splits(a, B, q, r)
    BY <1>1, Split
  <2> HIDE DEF q, r
  <2> QED BY <1>1, <2>1 DEF Splits
<1>4. c \in Contexts(S) /\ BlocksOf(c.state, s, q) /\ RestOf(c.buffer, s, q, r)
  BY DEF Holds
<1>5. /\ c.count0 \in Nat /\ c.count1 \in Nat /\ c.buffer \in Buffers(S) /\ c.state \in Seq(Buffers(S))
      /\ DOMAIN c = {"count0", "count1", "buffer", "state"}
  BY <1>4 DEF Contexts
<1>6. Index(c) = r
  BY IndexHolds
<1> DEFINE low == CountLow(c, n)
           high == CountHigh(c, n)
<1>7. /\ low \in Nat /\ high \in Nat
      /\ low = (8 * (a + n)) % W /\ high = ((8 * (a + n)) \div W) % W
  <2> DEFINE g == 8 * a
             h == 8 * n
  <2>1. g \in Nat /\ h \in Nat /\ g + h \in Nat /\ 8 * (a + n) = g + h
    BY <1>1
  <2>2. c.count0 = g % W /\ c.count1 = (g \div W) % W
    BY DEF Holds
  <2>3. BitsLow(n) = h % W
    BY DEF BitsLow
  <2>4. Carried(low, g, h, W)
    BY <2>2, <2>3 DEF CountLow, Carried
  <2>5. high = ((((g \div W) % W) + (IF low < (h % W) THEN 1 ELSE 0)) + (h \div W)) % W
    BY <2>2, <2>3 DEF CountHigh, Carry
  <2> HIDE DEF low, high, g, h
  <2>6. /\ low = (g + h) % W
        /\ ((g \div W) % W) + (IF low < (h % W) THEN 1 ELSE 0) + (h \div W) \in Nat
        /\ high = ((g + h) \div W) % W
    <3>1. W \in Nat \ {0} /\ g \in Nat /\ h \in Nat
      BY <1>1, <2>1
    <3> HIDE DEF W
    <3>2. /\ low = (g + h) % W
          /\ ((g \div W) % W) + (IF low < (h % W) THEN 1 ELSE 0) + (h \div W) \in Nat
          /\ (((g \div W) % W) + (IF low < (h % W) THEN 1 ELSE 0) + (h \div W)) % W = ((g + h) \div W) % W
      BY <2>4, <3>1, CountCarries
    <3> QED BY <2>5, <3>2
  <2>7. low \in Nat /\ high \in Nat
    BY <1>1, <2>1, <2>6, Quotient
  <2> QED BY <2>1, <2>6, <2>7
<1> DEFINE counted == [c EXCEPT !.count0 = low, !.count1 = high]
<1>8. d = IF n >= p THEN [counted EXCEPT !.state = c.state \o (<<first>> \o blocks),
                                            !.buffer = MD5_memcpy(first, 0, SubSeq(input, p + B * Len(blocks) + 1, n))]
             ELSE [counted EXCEPT !.buffer = part]
  BY <1>6 DEF MD5Update, MD5Transform
<1> SUFFICES Holds(d, t, S)
  BY <1>2
<1> HIDE DEF d, counted, low, high
<1>9. /\ counted \in Contexts(S)
      /\ counted.count0 = low /\ counted.count1 = high
      /\ counted.buffer = c.buffer /\ counted.state = c.state
  BY <1>4, <1>7 DEF counted, Contexts
<1>10. CASE n < p
  <2>1. d = [counted EXCEPT !.buffer = part]
    <3>1. ~(n >= p)
      BY <1>1, <1>3, <1>10
    <3> HIDE DEF part, n, p
    <3> QED BY <1>8, <3>1
  <2>2. /\ Splits(Len(t), B, q, r + n) /\ BlocksOf(c.state, t, q)
        /\ part \in Buffers(S) /\ RestOf(part, t, q, r + n)
    <3>1. Len(input) < BlockLen - r
      BY <1>10
    <3> HIDE DEF q, r
    <3> QED BY <1>3, <1>4, <3>1, FewBytes
  <2> HIDE DEF part, q, r, t, n
  <2>3. Len(t) \div B = q /\ Len(t) % B = r + n
    BY <1>1, <2>2, Reduced
  <2>4. d \in Contexts(S) /\ d.count0 = low /\ d.count1 = high /\ d.buffer = part /\ d.state = c.state
    BY <1>9, <2>1, <2>2 DEF Contexts
  <2>5. d.count0 = (8 * Len(t)) % WordSize /\ d.count1 = ((8 * Len(t)) \div WordSize) % WordSize
    BY <1>2, <1>7, <2>4
  <2>6. /\ BlocksOf(d.state, t, Len(t) \div BlockLen)
        /\ RestOf(d.buffer, t, Len(t) \div BlockLen, Len(t) % BlockLen)
    BY <2>2, <2>3, <2>4
  <2> QED BY <2>4, <2>5, <2>6 DEF Holds
<1>11. CASE n >= p
  <2>1. p \in Nat /\ n - p \in Nat
    <3> HIDE DEF q, r
    <3> QED BY <1>1, <1>3, <1>11
  <2>2. Splits(n - p, B, m, e) /\ m \in Nat /\ e \in Nat /\ e < B
    <3> DEFINE v == n - p
    <3>1. v \in Nat
      BY <2>1
    <3> HIDE DEF v
    <3>2. Splits(v, B, v \div B, v % B)
      BY <1>1, <3>1, Split
    <3> DEFINE x == v \div B
               y == v % B
    <3> HIDE DEF x, y
    <3>3. x \in Nat /\ y \in Nat /\ y < B
      BY <1>1, <3>2 DEF Splits, x, y
    <3> QED BY <3>2, <3>3 DEF v, x, y
  <2> HIDE DEF m, e
  <2>3. first \in Buffers(S) /\ BlockIs(first, t, q)
    <3>1. p = BlockLen - r /\ p <= Len(input)
      BY <1>1, <1>11, <2>1
    <3> HIDE DEF q, r, p
    <3> QED BY <1>3, <1>4, <1>5, <3>1, FirstBlock
  <2> HIDE DEF first
  <2>4. blocks \in Seq(Buffers(S)) /\ BlocksAre(blocks, input, p, m) /\ Len(blocks) = m
    <3>1. Splits(Len(input) - p, BlockLen, m, e)
      BY <2>2
    <3> HIDE DEF p
    <3>2. blocks \in Seq(Buffers(S)) /\ BlocksAre(blocks, input, p, m)
      BY <2>1, <3>1, InputBlocks
    <3> QED BY <3>2 DEF BlocksAre
  <2> HIDE DEF blocks
  <2>5. i \in Nat /\ i + e = n /\ i = p + m * BlockLen
    <3>1. m * B \in Nat /\ B * m = m * B
      BY <1>1, <2>2, Product
    <3> DEFINE v == m * B
               x == B * m
    <3>2. v \in Nat /\ x = v /\ n - p = v + e
      BY <2>2, <3>1 DEF Splits
    <3> HIDE DEF v, p, n
    <3>3. i = p + x
      OBVIOUS
    <3> HIDE DEF i, x
    <3>4. i \in Nat /\ i + e = n /\ i = p + v
      BY <1>1, <2>1, <2>2, <3>2, <3>3
    <3> QED BY <3>4 DEF v
  <2>6. last \in Buffers(S) /\ BytesAre(last, input, i, e)
    <3>1. i \in Nat /\ e \in Nat /\ i + e = Len(input) /\ e <= BlockLen
      BY <1>1, <2>2, <2>5
    <3> HIDE DEF i
    <3> QED BY <2>3, <3>1, LastBytes
  <2>7. d = [counted EXCEPT !.state = c.state \o (<<first>> \o blocks), !.buffer = last]
    <3> HIDE DEF p, n, m
    <3> QED BY <1>8, <1>11, <2>4
  <2> HIDE DEF last
  <2> DEFINE new == c.state \o (<<first>> \o blocks)
  <2>8. /\ Splits(Len(t), B, q + 1 + m, e) /\ new \in Seq(Buffers(S))
        /\ BlocksOf(new, t, q + 1 + m) /\ RestOf(last, t, q + 1 + m, e)
    <3>1. p = BlockLen - r /\ p <= Len(input)
      BY <1>1, <1>11, <2>1
    <3>2. Splits(Len(input) - p, BlockLen, m, e)
      BY <2>2
    <3>3. BytesAre(last, input, p + m * BlockLen, e)
      BY <2>5, <2>6
    <3> HIDE DEF q, r, p
    <3> QED BY <1>3, <1>4, <1>5, <2>3, <2>4, <2>6, <3>1, <3>2, <3>3, ManyBytes
  <2> HIDE DEF new
  <2>9. Len(t) \div B = q + 1 + m /\ Len(t) % B = e
    <3> HIDE DEF t, q
    <3> QED BY <1>1, <2>8, Reduced
  <2>10. d \in Contexts(S) /\ d.count0 = low /\ d.count1 = high /\ d.buffer = last /\ d.state = new
    BY <1>9, <2>6, <2>7, <2>8 DEF Contexts, new
  <2> HIDE DEF q, t, n
  <2>11. d.count0 = (8 * Len(t)) % WordSize /\ d.count1 = ((8 * Len(t)) \div WordSize) % WordSize
    BY <1>2, <1>7, <2>10
  <2>12. /\ BlocksOf(d.state, t, Len(t) \div BlockLen)
         /\ RestOf(d.buffer, t, Len(t) \div BlockLen, Len(t) % BlockLen)
    BY <2>8, <2>9, <2>10
  <2> QED BY <2>10, <2>11, <2>12 DEF Holds
<1>12. n < p \/ n >= p
  BY <1>1, <1>3
<1> QED BY <1>10, <1>11, <1>12

-----------------------------------------------------------------------------
Bytes == ({"message"} \X Nat) \cup ({"padding"} \X {0, 128}) \cup ({"length"} \X Nat \X Nat \X Nat)

MessageByte(i) == <<"message", i>>

LEMMA MessageIs ==
  ASSUME NEW n \in Nat, NEW k \in Nat
  PROVE  /\ Message(n, k) \in Seq(Bytes) /\ Len(Message(n, k)) = k
         /\ \A i \in 1 .. k : Message(n, k)[i] = MessageByte(n + i)
<1> DEFINE f == Message(n, k)
<1>1. \A i \in Nat : MessageByte(i) \in Bytes
  BY DEF MessageByte, Bytes
<1>2. f = [i \in 1 .. k |-> MessageByte(n + i)]
  BY DEF Message, MessageByte
<1>3. \A i \in 1 .. k : n + i \in Nat
  OBVIOUS
<1> HIDE DEF f
<1>4. f = [i \in 1 .. k |-> f[i]] /\ \A i \in 1 .. k : f[i] = MessageByte(n + i)
  BY <1>2
<1>5. f \in Seq(Bytes) /\ Len(f) = k
  BY <1>1, <1>3, <1>4, IsSequence
<1> QED BY <1>4, <1>5 DEF f

LEMMA Continued ==
  ASSUME NEW n \in Nat, NEW k \in Nat
  PROVE  Message(0, n) \o Message(n, k) = Message(0, n + k)
<1>1. PICK o \in Nat : o = 0
  OBVIOUS
<1> DEFINE a == Message(o, n)
           b == Message(n, k)
           c == Message(o, n + k)
           d == a \o b
<1>2. n + k \in Nat
  OBVIOUS
<1>3. /\ a \in Seq(Bytes) /\ Len(a) = n /\ \A i \in 1 .. n : a[i] = MessageByte(o + i)
      /\ b \in Seq(Bytes) /\ Len(b) = k /\ \A i \in 1 .. k : b[i] = MessageByte(n + i)
      /\ c \in Seq(Bytes) /\ Len(c) = n + k /\ \A i \in 1 .. n + k : c[i] = MessageByte(o + i)
  BY <1>2, MessageIs
<1> HIDE DEF a, b, c
<1>4. /\ d \in Seq(Bytes) /\ Len(d) = n + k
      /\ \A i \in 1 .. n : d[i] = a[i]
      /\ \A i \in 1 .. k : d[n + i] = b[i]
  <2>1. a \in Seq(Bytes) /\ b \in Seq(Bytes)
    BY <1>3
  <2>2. /\ d \in Seq(Bytes) /\ Len(d) = Len(a) + Len(b)
        /\ \A i \in 1 .. Len(a) : d[i] = a[i]
        /\ \A i \in 1 .. Len(b) : d[Len(a) + i] = b[i]
    BY <2>1, Appended
  <2> HIDE DEF d
  <2> QED BY <1>3, <2>2
<1> HIDE DEF d
<1>5. ASSUME NEW i \in 1 .. n + k PROVE d[i] = c[i]
  <2>1. CASE i \in 1 .. n
    BY <1>3, <1>4, <2>1
  <2>2. CASE i \notin 1 .. n
    <3> DEFINE j == i - n
    <3>1. j \in 1 .. k /\ n + j = i /\ o + i = i
      BY <1>1, <2>2
    <3> HIDE DEF j
    <3>2. d[i] = b[j] /\ b[j] = MessageByte(i) /\ c[i] = MessageByte(i)
      BY <1>3, <1>4, <3>1
    <3> QED BY <3>2
  <2> QED BY <2>1, <2>2
<1>6. d = c
  BY <1>3, <1>4, <1>5, SeqEqual
<1> QED BY <1>1, <1>6 DEF a, b, c, d

LEMMA PaddingIs ==
  ASSUME NEW n \in Nat \ {0}
  PROVE  /\ PADDING(n) \in Seq(Bytes) /\ Len(PADDING(n)) = n
         /\ PADDING(n) = <<<<"padding", 128>>>> \o Zeros(n - 1)
<1> DEFINE a == PADDING(n)
           z == Zeros(n - 1)
           b == <<<<"padding", 128>>>> \o z
<1>1. <<"padding", 128>> \in Bytes /\ <<"padding", 0>> \in Bytes
  BY DEF Bytes
<1>2. a = [i \in 1 .. n |-> IF i = 1 THEN <<"padding", 128>> ELSE <<"padding", 0>>]
  BY DEF PADDING
<1>3. a \in Seq(Bytes) /\ Len(a) = n /\ a[1] = <<"padding", 128>> /\ \A i \in 2 .. n : a[i] = <<"padding", 0>>
  <2> HIDE DEF a
  <2>1. \A i \in 1 .. n : a[i] \in Bytes
    BY <1>1, <1>2
  <2>2. a = [i \in 1 .. n |-> a[i]]
    BY <1>2
  <2>3. a \in Seq(Bytes) /\ Len(a) = n
    BY <2>1, <2>2, IsSequence
  <2> QED BY <1>2, <2>3
<1>4. z \in Seq(Bytes) /\ Len(z) = n - 1 /\ \A i \in 1 .. n - 1 : z[i] = <<"padding", 0>>
  BY <1>1 DEF Zeros
<1> HIDE DEF a, z
<1>5. b \in Seq(Bytes) /\ Len(b) = n /\ b[1] = <<"padding", 128>> /\ \A i \in 1 .. n - 1 : b[1 + i] = z[i]
  BY <1>1, <1>4
<1> HIDE DEF b
<1>6. ASSUME NEW i \in 1 .. n PROVE a[i] = b[i]
  <2>1. CASE i = 1
    BY <1>3, <1>5, <2>1
  <2>2. CASE i # 1
    <3>1. i \in 2 .. n /\ i - 1 \in 1 .. n - 1 /\ 1 + (i - 1) = i
      BY <2>2
    <3> QED BY <1>3, <1>4, <1>5, <3>1
  <2> QED BY <2>1, <2>2
<1> QED BY <1>3, <1>5, <1>6, SeqEqual DEF a, b, z

LEMMA EncodeIs ==
  ASSUME NEW l \in Nat, NEW h \in Nat
  PROVE  Encode(l, h) \in Seq(Bytes) /\ Len(Encode(l, h)) = LengthLen
<1>1. LengthLen \in Nat /\ \A i \in 1 .. LengthLen : <<"length", i, l, h>> \in Bytes
  BY BlockLenIs DEF Bytes
<1> QED BY <1>1 DEF Encode

Below(n, p, d, s) == n = (-p) * d + s

LEMMA BelowReduced ==
  ASSUME NEW d \in Nat \ {0}, NEW p \in Nat, NEW s \in 0 .. d - 1, NEW n, Below(n, p, d, s)
  PROVE  n % d = s
<1>1. n = (-p) * d + s /\ n \in Int
  BY DEF Below
<1> DEFINE q == n \div d
           r == n % d
           g == q + p
<1>2. q \in Int /\ r \in 0 .. d - 1 /\ n = q * d + r
  BY <1>1
<1> HIDE DEF q, r
<1>3. g \in Int /\ g * d = q * d - (-p) * d
  BY <1>2
<1>4. g * d = s - r
  <2> DEFINE x == q * d
             y == (-p) * d
             z == g * d
  <2>1. x \in Int /\ y \in Int /\ n = x + r /\ n = y + s /\ z = x - y
    BY <1>1, <1>2, <1>3
  <2> HIDE DEF x, y, z
  <2>2. z = s - r
    BY <1>2, <2>1
  <2> QED BY <2>2 DEF z
<1> HIDE DEF g
<1>5. ~(g >= 1) /\ ~(g <= -1)
  <2>1. g >= 1 => g * d >= d
    BY <1>3
  <2>2. g <= -1 => g * d <= -d
    BY <1>3
  <2>3. ~(g * d >= d) /\ ~(g * d <= -d)
    BY <1>2, <1>4
  <2> QED BY <2>1, <2>2, <2>3
<1>6. g = 0
  BY <1>3, <1>5
<1>7. r = s
  BY <1>2, <1>4, <1>6
<1> QED BY <1>7 DEF r

LEMMA ZerosToFill ==
  ASSUME NEW n \in Nat, NEW L, L = PadLen(n % BlockLen)
  PROVE  /\ L \in Nat \ {0} /\ (-(n + 1 + LengthLen)) % BlockLen = L - 1
         /\ (n + L + LengthLen) % BlockLen = 0
<1> DEFINE B == BlockLen
           K == LengthLen
           q == n \div B
           r == n % B
           y == q * B
<1>1. B \in Nat \ {0} /\ K \in 1 .. B - 1 /\ q \in Nat /\ r \in 0 .. B - 1 /\ n = y + r /\ y \in Nat
  BY BlockLenIs, Quotient, Product
<1>2. L = IF r < B - K THEN B - K - r ELSE 2 * B - K - r
  BY DEF PadLen
<1> HIDE DEF B, K, q, r, y
<1>3. L - 1 \in 0 .. B - 1 /\ (n + L + K = y + B \/ n + L + K = y + 2 * B)
  BY <1>1, <1>2
<1>4. PICK p \in Nat : n + L + K = p * B
  <2>1. (q + 1) * B = q * B + B /\ (q + 2) * B = q * B + 2 * B /\ q + 1 \in Nat /\ q + 2 \in Nat
    BY <1>1
  <2> QED BY <1>3, <2>1 DEF y
<1>5. Below(-(n + 1 + K), p, B, L - 1)
  <2>1. (-p) * B = -(p * B) /\ p * B \in Nat
    BY <1>1
  <2> DEFINE v == p * B
  <2>2. n + L + K = v
    BY <1>4
  <2> HIDE DEF v
  <2>3. -(n + 1 + K) = -v + (L - 1)
    <3>1. L \in Nat
      BY <1>1, <1>2
    <3> HIDE DEF B, K
    <3> QED BY <1>1, <2>2, <3>1 DEF K
  <2> QED BY <2>1, <2>3 DEF Below, v
<1>6. (-(n + 1 + K)) % B = L - 1
  BY <1>1, <1>3, <1>5, BelowReduced
<1>7. (n + L + K) % B = 0
  <2>1. p * B \in Nat /\ 0 \in 0 .. B - 1
    BY <1>1, Product
  <2>2. Splits(n + L + K, B, p, 0)
    BY <1>4, <2>1 DEF Splits
  <2> QED BY <1>1, <2>2, Reduced
<1>8. L \in Nat \ {0}
  BY <1>1, <1>2, <1>3
<1> QED BY <1>6, <1>7, <1>8 DEF B, K

LEMMA SameBuffer ==
  ASSUME NEW S, NEW f \in Buffers(S), NEW g \in Buffers(S), \A k \in 1 .. BlockLen : f[k] = g[k]
  PROVE  f = g
<1> DEFINE D == 1 .. BlockLen
<1>1. f = [k \in D |-> f[k]] /\ g = [k \in D |-> g[k]]
  BY DEF Buffers
<1>2. \A k \in D : f[k] = g[k]
  OBVIOUS
<1> HIDE DEF D
<1>3. [k \in D |-> f[k]] = [k \in D |-> g[k]]
  BY <1>2
<1> QED BY <1>1, <1>3

(* MD5Final pads the message and transforms what is then whole blocks.      *)
LEMMA FinishedIs ==
  ASSUME NEW n \in Nat, NEW c, Holds(c, Message(0, n), Bytes), NEW digestBlocks, digestBlocks = Finished(c).state
  PROVE  /\ Len(PaddedMessage(n)) = BlockLen * Len(digestBlocks)
         /\ \A b \in DOMAIN digestBlocks :
              digestBlocks[b] = SubSeq(PaddedMessage(n), (b - 1) * BlockLen + 1, b * BlockLen)
<1> DEFINE s == Message(0, n)
           L == PadLen(n % BlockLen)
           P == PADDING(L)
           E == Encode(c.count0, c.count1)
           c1 == MD5Update(c, P)
           c2 == MD5Update(c1, E)
           t == (s \o P) \o E
           zeros == Zeros(L - 1)
           mark == <<<<"padding", 128>>>>
<1>1. s \in Seq(Bytes) /\ Len(s) = n
  <2>1. PICK o \in Nat : o = 0
    OBVIOUS
  <2>2. Message(o, n) \in Seq(Bytes) /\ Len(Message(o, n)) = n
    BY MessageIs
  <2> QED BY <2>1, <2>2
<1> HIDE DEF s
<1>2. Holds(c, s, Bytes)
  BY DEF s
<1>3. Index(c) = n % BlockLen
  BY <1>1, <1>2, IndexHolds
<1>4. /\ L \in Nat \ {0} /\ (-(n + 1 + LengthLen)) % BlockLen = L - 1
      /\ (n + L + LengthLen) % BlockLen = 0
  BY ZerosToFill
<1>5. Finished(c) = c2
  BY <1>3 DEF Finished
<1> HIDE DEF L, P, E
<1>6. P \in Seq(Bytes) /\ Len(P) = L /\ P = mark \o zeros
  BY <1>4, PaddingIs DEF P
<1>7. c.count0 = (8 * n) % WordSize /\ c.count1 = ((8 * n) \div WordSize) % WordSize /\ c \in Contexts(Bytes)
  BY <1>1, <1>2 DEF Holds
<1>8. E \in Seq(Bytes) /\ Len(E) = LengthLen
  <2>1. c.count0 \in Nat /\ c.count1 \in Nat
    BY <1>7 DEF Contexts
  <2> QED BY <2>1, EncodeIs DEF E
<1>9. PaddedMessage(n) = t
  <2>1. PaddedMessage(n) = ((s \o mark) \o zeros) \o E
    BY <1>4, <1>7 DEF PaddedMessage, s, E
  <2>2. mark \in Seq(Bytes) /\ zeros \in Seq(Bytes)
    <3>1. <<"padding", 128>> \in Bytes /\ <<"padding", 0>> \in Bytes /\ L - 1 \in Nat
      BY <1>4 DEF Bytes
    <3> DEFINE z == zeros
    <3>2. z = [k \in 1 .. L - 1 |-> <<"padding", 0>>]
      BY DEF Zeros
    <3> HIDE DEF z
    <3>3. z = [k \in 1 .. L - 1 |-> z[k]] /\ \A k \in 1 .. L - 1 : z[k] \in Bytes
      BY <3>1, <3>2
    <3>4. z \in Seq(Bytes)
      BY <3>1, <3>3, IsSequence
    <3>5. mark \in Seq(Bytes)
      BY <3>1
    <3> QED BY <3>4, <3>5 DEF z
  <2>3. (s \o mark) \o zeros = s \o (mark \o zeros)
    <3> HIDE DEF mark, zeros
    <3> QED BY <1>1, <2>2, ConcatAssociative
  <2> QED BY <1>6, <2>1, <2>3
<1> HIDE DEF c1, c2
<1>10. s \o P \in Seq(Bytes) /\ Holds(c1, s \o P, Bytes)
  BY <1>1, <1>2, <1>6, UpdateHolds DEF c1
<1>11. t \in Seq(Bytes) /\ Holds(c2, t, Bytes)
  BY <1>8, <1>10, UpdateHolds DEF c2
<1>12. Len(t) = n + L + LengthLen
  <2>1. Len(s \o P) = n + L
    BY <1>1, <1>6, Appended
  <2> QED BY <1>8, <1>10, <2>1, Appended
<1> DEFINE q == Len(t) \div BlockLen
<1>13. q \in Nat /\ Len(t) = q * BlockLen
  <2> DEFINE v == n + L + LengthLen
  <2>1. v \in Nat /\ v % BlockLen = 0
    BY <1>4, BlockLenIs
  <2> HIDE DEF v
  <2>2. v \div BlockLen \in Nat /\ v = (v \div BlockLen) * BlockLen
    BY <2>1, BlockLenIs, Quotient
  <2> QED BY <1>12, <2>2 DEF v
<1>14. /\ digestBlocks \in Seq(Buffers(Bytes)) /\ Len(digestBlocks) = q
       /\ BlocksOf(digestBlocks, t, q)
  BY <1>5, <1>11 DEF Holds, Contexts, BlocksOf
<1> HIDE DEF t, q
<1>15. Len(t) = BlockLen * Len(digestBlocks)
  BY <1>13, <1>14, BlockLenIs
<1>16. ASSUME NEW b \in DOMAIN digestBlocks
       PROVE  digestBlocks[b] = SubSeq(t, (b - 1) * BlockLen + 1, b * BlockLen)
  <2> DEFINE a == (b - 1) * BlockLen
             v == b * BlockLen
  <2>1. b \in 1 .. q
    BY <1>14
  <2>2. b - 1 \in Nat /\ b \in Nat /\ b <= q /\ q \in Nat /\ BlockLen \in Nat
    BY <1>13, <2>1, BlockLenIs
  <2>3. a \in Nat /\ v = a + BlockLen /\ v <= Len(t)
    BY <1>13, <2>2, Product, Monotone
  <2> HIDE DEF a, v
  <2>4. digestBlocks[b] \in [1 .. BlockLen -> Bytes]
    BY <1>14, <2>1 DEF Buffers
  <2>5. \A k \in 1 .. BlockLen : digestBlocks[b][k] = t[a + k]
    BY <1>14, <2>1 DEF BlocksOf, a
  <2>6. /\ SubSeq(t, a + 1, a + BlockLen) \in [1 .. BlockLen -> Bytes]
        /\ \A k \in 1 .. BlockLen : SubSeq(t, a + 1, a + BlockLen)[k] = t[a + k]
    <3>1. Within(t, a, BlockLen)
      BY <2>3 DEF Within
    <3>2. /\ Part(t, a, BlockLen) \in [1 .. BlockLen -> Bytes]
          /\ PartIs(Part(t, a, BlockLen), t, a, BlockLen)
      BY <1>11, <2>2, <2>3, <3>1, Piece
    <3> QED BY <3>2 DEF Part, PartIs
  <2>7. digestBlocks[b] = SubSeq(t, a + 1, a + BlockLen)
    <3> DEFINE x == SubSeq(t, a + 1, a + BlockLen)
               y == digestBlocks[b]
    <3>1. x \in Buffers(Bytes) /\ y \in Buffers(Bytes) /\ \A k \in 1 .. BlockLen : x[k] = y[k]
      BY <2>4, <2>5, <2>6 DEF Buffers
    <3> HIDE DEF x, y
    <3>2. x = y
      BY <3>1, SameBuffer
    <3> QED BY <3>2 DEF x, y
  <2> QED BY <2>3, <2>7 DEF a, v
<1> QED BY <1>9, <1>15, <1>16

-----------------------------------------------------------------------------
(* An open context knows the message so far; the buffer outlives a digest.  *)
Md5Inv ==
  /\ phase \in {"none", "open", "final"}
  /\ fed \in Nat
  /\ context \in Contexts(Bytes)
  /\ phase = "open" => Holds(context, Message(0, fed), Bytes)
  /\ DigestOfMessage

LEMMA EmptyIs == Empty \in Contexts(Bytes)
<1>1. Zeros(BlockLen) \in Buffers(Bytes)
  BY DEF Zeros, Buffers, Bytes
<1>2. <<>> \in Seq(Buffers(Bytes))
  OBVIOUS
<1> QED BY <1>1, <1>2 DEF Empty, Contexts

LEMMA Md5Starts == Md5Init => Md5Inv
BY EmptyIs DEF Md5Init, Md5Inv, DigestOfMessage

LEMMA OpenKeeps ==
  ASSUME Md5Inv, MD5Init
  PROVE  Md5Inv'
<1>1. /\ context' = [context EXCEPT !.count0 = 0, !.count1 = 0, !.state = <<>>]
      /\ fed' = 0 /\ phase' = "open" /\ context \in Contexts(Bytes)
  BY DEF MD5Init, Md5Inv
<1>2. context' \in Contexts(Bytes) /\ context'.count0 = 0 /\ context'.count1 = 0 /\ context'.state = <<>>
  <2> DEFINE S == Seq(Buffers(Bytes))
             X == Buffers(Bytes)
  <2>1. <<>> \in S
    OBVIOUS
  <2>2. context \in [count0 : Nat, count1 : Nat, buffer : X, state : S]
    BY <1>1 DEF Contexts
  <2> HIDE DEF S, X
  <2>3. /\ context' \in [count0 : Nat, count1 : Nat, buffer : X, state : S]
        /\ context'.count0 = 0 /\ context'.count1 = 0 /\ context'.state = <<>>
    BY <1>1, <2>1, <2>2
  <2> QED BY <2>3 DEF S, X, Contexts
<1>3. PICK o \in Nat : o = 0
  OBVIOUS
<1> DEFINE s == Message(o, o)
<1>4. s \in Seq(Bytes) /\ Len(s) = 0
  BY <1>3, MessageIs
<1> HIDE DEF s
<1>5. (8 * 0) % WordSize = 0 /\ ((8 * 0) \div WordSize) % WordSize = 0 /\ 0 \div BlockLen = 0 /\ 0 % BlockLen = 0
  BY BlockLenIs
<1>6. /\ context'.count0 = (8 * Len(s)) % WordSize
      /\ context'.count1 = ((8 * Len(s)) \div WordSize) % WordSize
      /\ Len(s) \div BlockLen = 0 /\ Len(s) % BlockLen = 0
  BY <1>2, <1>4, <1>5
<1>7. BlocksOf(context'.state, s, 0) /\ RestOf(context'.buffer, s, 0, 0)
  BY <1>2 DEF BlocksOf, RestOf
<1>8. Holds(context', s, Bytes)
  BY <1>2, <1>6, <1>7 DEF Holds
<1>9. DigestOfMessage'
  BY <1>1 DEF DigestOfMessage
<1> QED BY <1>1, <1>2, <1>3, <1>8, <1>9 DEF Md5Inv, s

LEMMA UpdateKeeps ==
  ASSUME Md5Inv, NEW inputLen \in 0 .. MaxPiece, Update(inputLen)
  PROVE  Md5Inv'
<1>1. /\ context' = MD5Update(context, Message(fed, inputLen)) /\ fed' = fed + inputLen
      /\ phase = "open" /\ phase' = "open" /\ fed \in Nat /\ inputLen \in Nat
      /\ Holds(context, Message(0, fed), Bytes)
  BY Md5Assumption DEF Update, Md5Inv
<1> DEFINE s == Message(0, fed)
           u == Message(fed, inputLen)
<1>2. s \in Seq(Bytes) /\ u \in Seq(Bytes)
  <2>1. PICK o \in Nat : o = 0
    OBVIOUS
  <2>2. Message(o, fed) \in Seq(Bytes)
    BY <1>1, MessageIs
  <2> QED BY <1>1, <2>1, <2>2, MessageIs
<1>3. s \o u = Message(0, fed')
  BY <1>1, Continued
<1> HIDE DEF s, u
<1>4. Holds(context', s \o u, Bytes)
  <2>1. Holds(context, s, Bytes) /\ context' = MD5Update(context, u)
    BY <1>1 DEF s, u
  <2> QED BY <1>2, <2>1, UpdateHolds
<1>5. context' \in Contexts(Bytes)
  BY <1>4 DEF Holds
<1>6. DigestOfMessage'
  BY <1>1 DEF DigestOfMessage
<1>7. fed' \in Nat
  BY <1>1
<1> QED BY <1>1, <1>3, <1>4, <1>5, <1>6, <1>7 DEF Md5Inv

LEMMA FinalKeeps ==
  ASSUME Md5Inv, MD5Final
  PROVE  Md5Inv'
<1>1. /\ digest' = Finished(context).state /\ context' = Empty /\ phase' = "final" /\ fed' = fed
      /\ fed \in Nat /\ Holds(context, Message(0, fed), Bytes)
  BY DEF MD5Final, Md5Inv
<1>2. DigestOfMessage'
  BY <1>1, FinishedIs DEF DigestOfMessage
<1> QED BY <1>1, <1>2, EmptyIs DEF Md5Inv

LEMMA DigestStepKeeps == Md5Inv /\ [Md5Next]_md5Vars => Md5Inv'
<1> SUFFICES ASSUME Md5Inv, [Md5Next]_md5Vars PROVE Md5Inv'
  OBVIOUS
<1>1. CASE UNCHANGED md5Vars
  BY <1>1 DEF md5Vars, Md5Inv, DigestOfMessage
<1> QED BY <1>1, OpenKeeps, UpdateKeeps, FinalKeeps DEF Md5Next

(* The digest is that of the padded message, block by block, in whatever    *)
(* pieces of whatever lengths MD5Update is given the message.               *)
THEOREM DigestIsOfMessage == Md5Spec => []DigestOfMessage
<1>1. Md5Inv => DigestOfMessage
  BY DEF Md5Inv
<1> QED BY <1>1, Md5Starts, DigestStepKeeps, PTL DEF Md5Spec

-----------------------------------------------------------------------------
(* The system clock: a date and its number determine each other.            *)

(* The first day of a year and of a month.                                  *)
NewYear(y) == DayNumber(y - 1, 11, 1)
FirstOf(y, m) == DayNumber(MarchYear(y, m), MarchMonth(m), 1)
LeapDays(y) == IF IsLeap(y) THEN 1 ELSE 0

(* The days of a year before a month of it.                                 *)
Offset(m, l) ==
  IF m = 1 THEN 0 ELSE IF m = 2 THEN 31 ELSE IF m = 3 THEN 59 + l ELSE IF m = 4 THEN 90 + l
  ELSE IF m = 5 THEN 120 + l ELSE IF m = 6 THEN 151 + l ELSE IF m = 7 THEN 181 + l
  ELSE IF m = 8 THEN 212 + l ELSE IF m = 9 THEN 243 + l ELSE IF m = 10 THEN 273 + l
  ELSE IF m = 11 THEN 304 + l ELSE IF m = 12 THEN 334 + l ELSE 365 + l

LEMMA Quotients ==
  \A y \in Int : y \div 4 \in Int /\ y \div 100 \in Int /\ y \div 400 \in Int
OBVIOUS

LEMMA NewYearIs ==
  ASSUME NEW y \in Nat, y > 0
  PROVE  /\ NewYear(y) = (y - 1) \div 4 - (y - 1) \div 100 + (y - 1) \div 400 + 337 + (y - 1) * 365 - 719499
         /\ NewYear(y) \in Int
<1> DEFINE b == y - 1
<1>1. b \in Int /\ (367 * 11) \div 12 + 1 = 337 /\ b * 365 \in Int
  OBVIOUS
<1> HIDE DEF b
<1>2. DayNumber(b, 11, 1) = b \div 4 - b \div 100 + b \div 400 + (367 * 11) \div 12 + 1 + b * 365 - 719499
  BY DEF DayNumber, EpochDays
<1>3. (367 * 11) \div 12 = 336
  OBVIOUS
<1>4. /\ DayNumber(b, 11, 1) = b \div 4 - b \div 100 + b \div 400 + 337 + b * 365 - 719499
      /\ DayNumber(b, 11, 1) \in Int
  BY <1>1, <1>2, <1>3, Quotients
<1> QED BY <1>4 DEF b, NewYear

LEMMA YearsAscend ==
  ASSUME NEW y \in Nat, y > 0
  PROVE  NewYear(y + 1) = NewYear(y) + 365 + LeapDays(y)
<1> DEFINE a == y \div 4 - y \div 100 + y \div 400
           b == (y - 1) \div 4 - (y - 1) \div 100 + (y - 1) \div 400
<1>1. a \in Int /\ b \in Int
  <2>1. y - 1 \in Int /\ y \in Int
    OBVIOUS
  <2> QED BY <2>1, Quotients
<1>2. a - b = LeapDays(y)
  BY LeapDay DEF LeapDays
<1>3. y + 1 \in Nat /\ y + 1 > 0 /\ (y + 1) - 1 = y
  OBVIOUS
<1>4. NewYear(y + 1) = a + 337 + y * 365 - 719499
  BY <1>3, NewYearIs
<1>5. NewYear(y) = b + 337 + (y - 1) * 365 - 719499
  BY NewYearIs
<1> HIDE DEF a, b
<1> QED BY <1>1, <1>2, <1>4, <1>5

LEMMA LaterYear ==
  ASSUME NEW y \in Nat, y > 0, NEW z \in Nat, y < z
  PROVE  NewYear(y) + 365 + LeapDays(y) <= NewYear(z)
<1>1. NewYear(y + 1) <= NewYear(z)
  <2> DEFINE b == y
             c == z - 1
  <2>1. b \in Nat /\ c \in Nat /\ b <= c
    OBVIOUS
  <2>2. NewYear(z) = c \div 4 - c \div 100 + c \div 400 + 337 + c * 365 - 719499
    BY NewYearIs
  <2>3. NewYear(y + 1) = b \div 4 - b \div 100 + b \div 400 + 337 + b * 365 - 719499
    <3>1. y + 1 \in Nat /\ y + 1 > 0 /\ (y + 1) - 1 = b
      OBVIOUS
    <3> QED BY <3>1, NewYearIs
  <2> HIDE DEF b, c
  <2>4. b \div 4 <= c \div 4 /\ b \div 400 <= c \div 400 /\ c \div 100 - b \div 100 <= c - b
    BY <2>1
  <2> QED BY <2>1, <2>2, <2>3, <2>4, Quotients
<1> QED BY <1>1, YearsAscend

LEMMA FirstOfMonth ==
  ASSUME NEW y \in Nat, y > 0, NEW m \in 1 .. 12
  PROVE  FirstOf(y, m) = NewYear(y) + Offset(m, LeapDays(y))
<1> DEFINE l == LeapDays(y)
<1>1. l \in 0 .. 1
  BY DEF LeapDays
<1>2. NewYear(y) \in Int
  BY NewYearIs
<1>3. CASE m \in 1 .. 2
  <2>1. /\ MarchYear(y, m) = y - 1 /\ MarchMonth(m) = m + 10
        /\ (367 * (m + 10)) \div 12 = IF m = 1 THEN 336 ELSE 367
    BY <1>3 DEF MarchYear, MarchMonth, LastYears
  <2> DEFINE b == y - 1
  <2>2. b \in Int
    OBVIOUS
  <2>3. NewYear(y) = b \div 4 - b \div 100 + b \div 400 + 337 + b * 365 - 719499
    BY NewYearIs
  <2> HIDE DEF b
  <2>4. FirstOf(y, m) = b \div 4 - b \div 100 + b \div 400 + (IF m = 1 THEN 336 ELSE 367) + 1 + b * 365 - 719499
    BY <2>1 DEF FirstOf, DayNumber, EpochDays, b
  <2>5. Offset(m, l) = IF m = 1 THEN 0 ELSE 31
    BY <1>3 DEF Offset
  <2> QED BY <1>3, <2>2, <2>3, <2>4, <2>5, Quotients
<1>4. CASE m \in 3 .. 12
  <2>1. MarchYear(y, m) = y /\ MarchMonth(m) = m - 2
    BY <1>4 DEF MarchYear, MarchMonth, LastYears
  <2>2. (367 * (m - 2)) \div 12 + 365 + l = 336 + Offset(m, l)
    <3> DEFINE x == (367 * (m - 2)) \div 12
    <3>1. /\ m = 3 => x = 30 /\ Offset(m, l) = 59 + l
          /\ m = 4 => x = 61 /\ Offset(m, l) = 90 + l
          /\ m = 5 => x = 91 /\ Offset(m, l) = 120 + l
          /\ m = 6 => x = 122 /\ Offset(m, l) = 151 + l
      BY DEF Offset
    <3>2. /\ m = 7 => x = 152 /\ Offset(m, l) = 181 + l
          /\ m = 8 => x = 183 /\ Offset(m, l) = 212 + l
          /\ m = 9 => x = 214 /\ Offset(m, l) = 243 + l
          /\ m = 10 => x = 244 /\ Offset(m, l) = 273 + l
          /\ m = 11 => x = 275 /\ Offset(m, l) = 304 + l
          /\ m = 12 => x = 305 /\ Offset(m, l) = 334 + l
      BY DEF Offset
    <3> HIDE DEF x, l
    <3>3. x + 365 + l = 336 + Offset(m, l)
      BY <1>1, <1>4, <3>1, <3>2
    <3> QED BY <3>3 DEF x
  <2>3. NewYear(y + 1) = y \div 4 - y \div 100 + y \div 400 + 337 + y * 365 - 719499
    <3>1. y + 1 \in Nat /\ y + 1 > 0 /\ (y + 1) - 1 = y
      OBVIOUS
    <3> QED BY <3>1, NewYearIs
  <2>4. NewYear(y + 1) = NewYear(y) + 365 + l
    BY YearsAscend
  <2>5. FirstOf(y, m) = y \div 4 - y \div 100 + y \div 400 + (367 * (m - 2)) \div 12 + 1 + y * 365 - 719499
    BY <2>1 DEF FirstOf, DayNumber, EpochDays
  <2> DEFINE x == (367 * (m - 2)) \div 12
             o == Offset(m, l)
             a == y \div 4 - y \div 100 + y \div 400
  <2>6. x \in Int /\ o \in Int /\ a \in Int
    BY <1>1, <1>4, Quotients DEF Offset
  <2> HIDE DEF x, o, a, l
  <2>7. FirstOf(y, m) = NewYear(y) + o
    BY <1>1, <1>2, <2>2, <2>3, <2>4, <2>5, <2>6 DEF x, o, a
  <2> QED BY <2>7 DEF o, l
<1> QED BY <1>3, <1>4

LEMMA OffsetsAscend ==
  ASSUME NEW y \in Nat, NEW m \in 1 .. 12
  PROVE  /\ Offset(m, LeapDays(y)) \in Nat
         /\ Offset(m, LeapDays(y)) + DaysIn(y, m) = Offset(m + 1, LeapDays(y))
         /\ Offset(13, LeapDays(y)) = 365 + LeapDays(y)
         /\ \A k \in m + 1 .. 13 : Offset(m + 1, LeapDays(y)) <= Offset(k, LeapDays(y))
<1> DEFINE l == LeapDays(y)
<1>1. l \in 0 .. 1
  BY DEF LeapDays
<1>2. DaysIn(y, m) = IF m = 2 THEN 28 + l ELSE IF m \in {4, 6, 9, 11} THEN 30 ELSE 31
  BY DEF DaysIn, LeapDays
<1> HIDE DEF l
<1>3. Offset(m, l) \in Nat
  BY <1>1 DEF Offset
<1>4. Offset(m, l) + DaysIn(y, m) = Offset(m + 1, l)
  BY <1>1, <1>2 DEF Offset
<1>5. Offset(13, l) = 365 + l
  BY DEF Offset
<1>6. \A k \in m + 1 .. 13 : Offset(m + 1, l) <= Offset(k, l)
  BY <1>1 DEF Offset
<1> QED BY <1>3, <1>4, <1>5, <1>6 DEF l

LEMMA DayOfMonth ==
  ASSUME NEW y \in Nat, y > 0, NEW m \in 1 .. 12, NEW d \in Int
  PROVE  Number(y, m, d) = NewYear(y) + Offset(m, LeapDays(y)) + d - 1
<1> DEFINE a == MarchYear(y, m)
           b == MarchMonth(m)
           v == (367 * b) \div 12
           u == a \div 4 - a \div 100 + a \div 400
<1>1. a \in Int /\ b \in Int
  BY DEF MarchYear, MarchMonth, LastYears
<1>2. u \in Int /\ v \in Int
  BY <1>1, Quotients
<1>3. Number(y, m, d) = u + v + d + a * 365 - 719499 /\ FirstOf(y, m) = u + v + 1 + a * 365 - 719499
  BY DEF Number, FirstOf, DayNumber, EpochDays
<1> HIDE DEF a, b, u, v
<1>4. Number(y, m, d) = FirstOf(y, m) + d - 1
  BY <1>1, <1>2, <1>3
<1> QED BY <1>4, FirstOfMonth

IsDay(y, m, d) == y \in Nat /\ y > 0 /\ m \in 1 .. 12 /\ d \in 1 .. DaysIn(y, m)

(* A date lies in its month and in its year.                                *)
LEMMA DayWithin ==
  ASSUME NEW y, NEW m, NEW d, IsDay(y, m, d)
  PROVE  /\ NewYear(y) \in Int /\ Number(y, m, d) \in Int
         /\ LeapDays(y) \in 0 .. 1
         /\ Offset(m, LeapDays(y)) \in Nat /\ Offset(m + 1, LeapDays(y)) \in Nat
         /\ NewYear(y) + Offset(m, LeapDays(y)) <= Number(y, m, d)
         /\ Number(y, m, d) < NewYear(y) + Offset(m + 1, LeapDays(y))
         /\ NewYear(y) <= Number(y, m, d)
         /\ Number(y, m, d) < NewYear(y) + 365 + LeapDays(y)
<1> DEFINE l == LeapDays(y)
           x == Offset(m, l)
           z == Offset(m + 1, l)
           n == Number(y, m, d)
           s == DaysIn(y, m)
<1>1. y \in Nat /\ y > 0 /\ m \in 1 .. 12 /\ d \in 1 .. s /\ s \in Nat
  BY DEF IsDay, DaysIn
<1>2. l \in 0 .. 1
  BY DEF LeapDays
<1>3. NewYear(y) \in Int
  BY <1>1, NewYearIs
<1>4. n = NewYear(y) + x + d - 1
  BY <1>1, DayOfMonth
<1>5. x \in Nat /\ x + s = z /\ z <= 365 + l
  <2>1. /\ x \in Nat /\ x + s = z /\ Offset(13, l) = 365 + l
        /\ \A k \in m + 1 .. 13 : z <= Offset(k, l)
    <3>1. y \in Nat /\ m \in 1 .. 12
      BY <1>1
    <3>2. /\ Offset(m, LeapDays(y)) \in Nat
          /\ Offset(m, LeapDays(y)) + DaysIn(y, m) = Offset(m + 1, LeapDays(y))
          /\ Offset(13, LeapDays(y)) = 365 + LeapDays(y)
          /\ \A k \in m + 1 .. 13 : Offset(m + 1, LeapDays(y)) <= Offset(k, LeapDays(y))
      BY <3>1, OffsetsAscend
    <3> QED BY <3>2
  <2>2. 13 \in m + 1 .. 13
    BY <1>1
  <2> HIDE DEF x, s, z, l
  <2> QED BY <2>1, <2>2
<1> HIDE DEF l, x, z, n, s
<1>6. /\ n \in Int /\ z \in Nat /\ NewYear(y) + x <= n /\ n < NewYear(y) + z
      /\ NewYear(y) <= n /\ n < NewYear(y) + 365 + l
  BY <1>1, <1>2, <1>3, <1>4, <1>5
<1> QED BY <1>2, <1>3, <1>5, <1>6 DEF l, x, z, n

(* No two dates have one number.                                            *)
LEMMA OneDate ==
  ASSUME NEW y, NEW m, NEW d, NEW v, NEW k, NEW e, IsDay(y, m, d), IsDay(v, k, e),
         Number(y, m, d) = Number(v, k, e)
  PROVE  y = v /\ m = k /\ d = e
<1>1. ASSUME NEW a, NEW b, NEW i, NEW p, NEW q, NEW j, IsDay(a, b, i), IsDay(p, q, j), a < p
      PROVE  Number(a, b, i) < Number(p, q, j)
  <2>1. a \in Nat /\ a > 0 /\ p \in Nat
    BY <1>1 DEF IsDay
  <2>2. NewYear(a) + 365 + LeapDays(a) <= NewYear(p)
    BY <1>1, <2>1, LaterYear
  <2>3. /\ Number(a, b, i) < NewYear(a) + 365 + LeapDays(a) /\ Number(a, b, i) \in Int
        /\ LeapDays(a) \in 0 .. 1 /\ NewYear(a) \in Int
    BY <1>1, DayWithin
  <2>4. NewYear(p) <= Number(p, q, j) /\ Number(p, q, j) \in Int /\ NewYear(p) \in Int
    BY <1>1, DayWithin
  <2> QED BY <2>2, <2>3, <2>4
<1>2. y \in Nat /\ v \in Nat /\ m \in 1 .. 12 /\ k \in 1 .. 12
  BY DEF IsDay
<1>3. Number(y, m, d) \in Int
  BY DayWithin
<1>4. y = v
  <2>1. ~(y < v) /\ ~(v < y)
    BY <1>1, <1>3
  <2> QED BY <1>2, <2>1
<1>5. ASSUME NEW b, NEW i, NEW q, NEW j, IsDay(y, b, i), IsDay(y, q, j), b < q
      PROVE  Number(y, b, i) < Number(y, q, j)
  <2> DEFINE l == LeapDays(y)
  <2>1. b \in 1 .. 12 /\ q \in 1 .. 12 /\ q \in b + 1 .. 13
    BY <1>5 DEF IsDay
  <2>2. Offset(b + 1, l) <= Offset(q, l)
    BY <1>2, <2>1, OffsetsAscend
  <2>3. /\ Number(y, b, i) < NewYear(y) + Offset(b + 1, l) /\ Number(y, b, i) \in Int
        /\ Offset(b + 1, l) \in Nat /\ NewYear(y) \in Int
    BY <1>5, DayWithin
  <2>4. NewYear(y) + Offset(q, l) <= Number(y, q, j) /\ Number(y, q, j) \in Int /\ Offset(q, l) \in Nat
    BY <1>5, DayWithin
  <2> QED BY <2>2, <2>3, <2>4
<1>6. m = k
  <2>1. ~(m < k) /\ ~(k < m)
    BY <1>3, <1>4, <1>5
  <2> QED BY <1>2, <2>1
<1>7. d = e
  <2> DEFINE o == Offset(m, LeapDays(y))
  <2>1. d \in Int /\ e \in Int /\ y > 0
    BY <1>4, <1>6 DEF IsDay, DaysIn
  <2>2. Number(y, m, d) = NewYear(y) + o + d - 1 /\ Number(y, m, e) = NewYear(y) + o + e - 1
    BY <1>2, <2>1, DayOfMonth
  <2>3. NewYear(y) \in Int /\ o \in Nat
    BY DayWithin
  <2> HIDE DEF o
  <2> QED BY <1>4, <1>6, <2>1, <2>2, <2>3
<1> QED BY <1>4, <1>6, <1>7

(* The year of a day before 2100.                                           *)
LEMMA YearIs ==
  ASSUME NEW n \in Nat, n < DayNumber(2099, 11, 1)
  PROVE  /\ YearOf(n) \in 1970 .. 2100
         /\ NewYear(YearOf(n)) <= n /\ n < NewYear(YearOf(n) + 1)
<1>1. DayNumber(2099, 11, 1) = 47482
  <2>1. 2099 \div 4 = 524 /\ 2099 \div 100 = 20 /\ 2099 \div 400 = 5 /\ (367 * 11) \div 12 = 336
    OBVIOUS
  <2> QED BY <2>1 DEF DayNumber, EpochDays
<1>2. \A b \in 1969 .. 2099 : NewYear(b + 1) = b \div 4 - 492 + (b - 1969) * 365
  <2> SUFFICES ASSUME NEW b \in 1969 .. 2099 PROVE NewYear(b + 1) = b \div 4 - 492 + (b - 1969) * 365
    OBVIOUS
  <2>1. b + 1 \in Nat /\ b + 1 > 0 /\ (b + 1) - 1 = b
    OBVIOUS
  <2>2. NewYear(b + 1) = b \div 4 - b \div 100 + b \div 400 + 337 + b * 365 - 719499
    BY <2>1, NewYearIs
  <2>3. b \div 100 - b \div 400 = 15 /\ b \div 4 \in Int /\ b \div 100 \in Int /\ b \div 400 \in Int
    OBVIOUS
  <2> QED BY <2>2, <2>3
<1> DEFINE k == (4 * n + 2) \div 1461
           y == 1970 + k
<1>3. k \in 0 .. 129
  BY <1>1
<1>4. NewYear(y) <= n
  <2>1. NewYear(y) = (1969 + k) \div 4 - 492 + k * 365
    <3>1. 1969 + k \in 1969 .. 2099 /\ (1969 + k) + 1 = y /\ (1969 + k) - 1969 = k
      BY <1>3
    <3> HIDE DEF k, y
    <3> QED BY <1>2, <3>1
  <2>2. 1461 * k <= 4 * n + 2
    OBVIOUS
  <2>3. n \in Nat
    OBVIOUS
  <2> HIDE DEF k, y
  <2> QED BY <1>3, <2>1, <2>2, <2>3
<1>5. n < NewYear(y + 1)
  <2>1. NewYear(y + 1) = (1970 + k) \div 4 - 492 + (k + 1) * 365
    <3>1. 1970 + k \in 1969 .. 2099 /\ (1970 + k) + 1 = y + 1 /\ (1970 + k) - 1969 = k + 1
      BY <1>3
    <3> HIDE DEF k, y
    <3> QED BY <1>2, <3>1
  <2>2. 4 * n + 2 < 1461 * (k + 1)
    OBVIOUS
  <2>3. n \in Nat
    OBVIOUS
  <2> HIDE DEF k, y
  <2> QED BY <1>3, <2>1, <2>2, <2>3
<1> HIDE DEF k
<1>6. \E x \in 1970 .. 2100 : DayNumber(x - 1, 11, 1) <= n /\ n < DayNumber(x, 11, 1)
  <2>1. y \in 1970 .. 2100 /\ (y + 1) - 1 = y
    BY <1>3
  <2> QED BY <1>4, <1>5, <2>1 DEF NewYear
<1> DEFINE v == YearOf(n)
<1>7. v \in 1970 .. 2100 /\ DayNumber(v - 1, 11, 1) <= n /\ n < DayNumber(v, 11, 1)
  BY <1>6 DEF YearOf
<1> HIDE DEF v
<1>8. (v + 1) - 1 = v
  BY <1>7
<1> QED BY <1>7, <1>8 DEF v, NewYear

(* The month of a day of a year.                                            *)
MonthIn(y, n) ==
  CHOOSE i \in 1 .. 12 : FirstOf(y, i) <= n /\ \A j \in 1 .. 12 : FirstOf(y, j) <= n => j <= i

LEMMA MonthIs ==
  ASSUME NEW y \in Nat, y > 0, NEW n \in Int, NewYear(y) <= n, n < NewYear(y + 1)
  PROVE  /\ MonthIn(y, n) \in 1 .. 12
         /\ n - FirstOf(y, MonthIn(y, n)) + 1 \in 1 .. DaysIn(y, MonthIn(y, n))
<1> DEFINE l == LeapDays(y)
           o == n - NewYear(y)
           m == MonthIn(y, n)
<1>1. l \in 0 .. 1
  BY DEF LeapDays
<1>2. NewYear(y) \in Int /\ NewYear(y + 1) = NewYear(y) + 365 + l
  BY NewYearIs, YearsAscend
<1>3. \A i \in 1 .. 12 : FirstOf(y, i) = NewYear(y) + Offset(i, l)
  BY FirstOfMonth
<1> HIDE DEF l
<1>4. o \in Nat /\ o < 365 + l
  BY <1>1, <1>2
<1>5. \A i \in 1 .. 13 : Offset(i, l) \in Nat
  BY <1>1 DEF Offset
<1>6. \A i \in 1 .. 12 : FirstOf(y, i) <= n <=> Offset(i, l) <= o
  BY <1>2, <1>3, <1>5
<1> HIDE DEF o
<1>7. PICK i \in 1 .. 12 : Offset(i, l) <= o /\ \A j \in 1 .. 12 : Offset(j, l) <= o => j <= i
  <2> DEFINE Last(i) == Offset(i, l) <= o /\ \A j \in 1 .. 12 : Offset(j, l) <= o => j <= i
  <2>1. \A i \in 1 .. 12 : Offset(i, l) <= o /\ o < Offset(i + 1, l) => Last(i)
    <3> SUFFICES ASSUME NEW i \in 1 .. 12, Offset(i, l) <= o, o < Offset(i + 1, l), NEW j \in 1 .. 12, Offset(j, l) <= o
                 PROVE  j <= i
      OBVIOUS
    <3>1. j > i => j \in i + 1 .. 13
      OBVIOUS
    <3>2. j > i => Offset(i + 1, l) <= Offset(j, l)
      BY <3>1, OffsetsAscend DEF l
    <3> QED BY <1>4, <1>5, <3>2
  <2>2. Offset(1, l) = 0 /\ Offset(13, l) = 365 + l
    BY DEF Offset
  <2>3. \E i \in 1 .. 12 : Offset(i, l) <= o /\ o < Offset(i + 1, l)
    <3> DEFINE In(i) == Offset(i, l) <= o /\ o < Offset(i + 1, l)
    <3> SUFFICES ASSUME \A i \in 1 .. 12 : ~In(i) PROVE FALSE
      OBVIOUS
    <3>1. \A i \in 1 .. 12 : Offset(i, l) <= o => Offset(i + 1, l) <= o
      <4> SUFFICES ASSUME NEW i \in 1 .. 12, Offset(i, l) <= o PROVE Offset(i + 1, l) <= o
        OBVIOUS
      <4>1. ~In(i) /\ i + 1 \in 1 .. 13
        OBVIOUS
      <4> QED BY <1>4, <1>5, <4>1
    <3> HIDE DEF In
    <3>2. Offset(1, l) <= o
      BY <1>4, <2>2
    <3>3. /\ Offset(2, l) <= o /\ Offset(3, l) <= o /\ Offset(4, l) <= o /\ Offset(5, l) <= o
          /\ Offset(6, l) <= o /\ Offset(7, l) <= o /\ Offset(8, l) <= o /\ Offset(9, l) <= o
          /\ Offset(10, l) <= o /\ Offset(11, l) <= o /\ Offset(12, l) <= o /\ Offset(13, l) <= o
      <4>1. Offset(1 + 1, l) <= o
        BY <3>1, <3>2
      <4>2. Offset(2 + 1, l) <= o
        BY <3>1, <4>1
      <4>3. Offset(3 + 1, l) <= o
        BY <3>1, <4>2
      <4>4. Offset(4 + 1, l) <= o
        BY <3>1, <4>3
      <4>5. Offset(5 + 1, l) <= o
        BY <3>1, <4>4
      <4>6. Offset(6 + 1, l) <= o
        BY <3>1, <4>5
      <4>7. Offset(7 + 1, l) <= o
        BY <3>1, <4>6
      <4>8. Offset(8 + 1, l) <= o
        BY <3>1, <4>7
      <4>9. Offset(9 + 1, l) <= o
        BY <3>1, <4>8
      <4>10. Offset(10 + 1, l) <= o
        BY <3>1, <4>9
      <4>11. Offset(11 + 1, l) <= o
        BY <3>1, <4>10
      <4>12. Offset(12 + 1, l) <= o
        BY <3>1, <4>11
      <4> QED BY <4>1, <4>2, <4>3, <4>4, <4>5, <4>6, <4>7, <4>8, <4>9, <4>10, <4>11, <4>12
    <3> QED BY <1>1, <1>4, <2>2, <3>3
  <2> HIDE DEF Last
  <2>4. \E i \in 1 .. 12 : Last(i)
    BY <2>1, <2>3
  <2> QED BY <2>4 DEF Last
<1>8. \E k \in 1 .. 12 : FirstOf(y, k) <= n /\ \A j \in 1 .. 12 : FirstOf(y, j) <= n => j <= k
  BY <1>6, <1>7
<1>9. m \in 1 .. 12 /\ FirstOf(y, m) <= n /\ \A j \in 1 .. 12 : FirstOf(y, j) <= n => j <= m
  BY <1>8 DEF MonthIn
<1> HIDE DEF m
<1>10. n < NewYear(y) + Offset(m + 1, l)
  <2>1. CASE m = 12
    <3>1. Offset(m + 1, l) = 365 + l
      BY <2>1 DEF Offset
    <3> QED BY <1>1, <1>2, <3>1
  <2>2. CASE m # 12
    <3> DEFINE k == m + 1
    <3>1. k \in 1 .. 12 /\ ~(k <= m)
      BY <1>9, <2>2
    <3> HIDE DEF k
    <3>2. ~(FirstOf(y, k) <= n)
      BY <1>9, <3>1
    <3>3. FirstOf(y, k) = NewYear(y) + Offset(k, l) /\ Offset(k, l) \in Nat
      BY <1>3, <1>5, <3>1
    <3>4. n < NewYear(y) + Offset(k, l)
      BY <1>2, <3>2, <3>3
    <3> QED BY <3>4 DEF k
  <2> QED BY <2>1, <2>2
<1>11. DaysIn(y, m) \in Nat /\ Offset(m, l) + DaysIn(y, m) = Offset(m + 1, l)
  <2>1. Offset(m, LeapDays(y)) + DaysIn(y, m) = Offset(m + 1, LeapDays(y))
    BY <1>9, OffsetsAscend
  <2> QED BY <2>1 DEF DaysIn, l
<1>12. FirstOf(y, m) = NewYear(y) + Offset(m, l) /\ Offset(m, l) \in Nat
  BY <1>3, <1>5, <1>9
<1>13. n - FirstOf(y, m) + 1 \in 1 .. DaysIn(y, m)
  <2> DEFINE f == FirstOf(y, m)
             s == DaysIn(y, m)
             x == Offset(m, l)
             z == Offset(m + 1, l)
  <2>1. f <= n /\ n < NewYear(y) + z /\ s \in Nat /\ x + s = z /\ f = NewYear(y) + x /\ x \in Nat
    BY <1>9, <1>10, <1>11, <1>12
  <2> HIDE DEF f, s, x, z
  <2>2. n - f + 1 \in 1 .. s
    BY <1>2, <2>1
  <2> QED BY <2>2 DEF f, s
<1> QED BY <1>9, <1>13 DEF m

(* What gmtime_r makes of a day is its date.                                *)
LEMMA DayIs ==
  ASSUME NEW n \in Nat, n < DayNumber(2099, 11, 1), NEW y, y = YearOf(n), NEW m, m = MonthIn(y, n)
  PROVE  /\ IsDay(y, m, n - FirstOf(y, m) + 1)
         /\ Number(y, m, n - FirstOf(y, m) + 1) = n
<1>1. y \in 1970 .. 2100 /\ NewYear(y) <= n /\ n < NewYear(y + 1)
  BY YearIs
<1>2. y \in Nat /\ y > 0
  BY <1>1
<1>3. m \in 1 .. 12 /\ n - FirstOf(y, m) + 1 \in 1 .. DaysIn(y, m)
  BY <1>1, <1>2, MonthIs
<1> DEFINE f == FirstOf(y, m)
           o == Offset(m, LeapDays(y))
<1>4. f = NewYear(y) + o /\ NewYear(y) \in Int
  BY <1>2, <1>3, FirstOfMonth, NewYearIs
<1>5. o \in Int
  <2>1. m \in 1 .. 12
    BY <1>3
  <2>2. Offset(m, LeapDays(y)) \in Nat
    BY <2>1 DEF Offset, LeapDays
  <2> QED BY <2>2
<1> HIDE DEF o, f
<1>6. n - f + 1 \in Int
  BY <1>4, <1>5
<1>7. Number(y, m, n - f + 1) = NewYear(y) + o + (n - f + 1) - 1
  BY <1>2, <1>3, <1>6, DayOfMonth DEF o
<1>8. Number(y, m, n - f + 1) = n
  BY <1>4, <1>5, <1>7
<1> QED BY <1>2, <1>3, <1>8 DEF IsDay, f

-----------------------------------------------------------------------------
Normal ==
  [year : {y \in Nat : y >= 1970}, month : Int, day : Int, hour : 0 .. 23, minite : 0 .. 59, second : 0 .. 59]

SecondsInDay(t) == (t.hour * 60 + t.minite) * 60 + t.second

(* A number of seconds that a day has.                                      *)
InDay(c) == c \in Nat /\ c < 86400

LEMMA ConvertIs ==
  ASSUME NEW t \in Normal, IsDate(t)
  PROVE  /\ IsDay(t.year, t.month, t.day)
         /\ Number(t.year, t.month, t.day) \in Int
         /\ InDay(SecondsInDay(t))
         /\ convertTime(t) = Number(t.year, t.month, t.day) * 86400 + SecondsInDay(t)
<1> DEFINE n == Number(t.year, t.month, t.day)
           h == t.hour
           i == t.minite
           s == t.second
<1>1. IsDay(t.year, t.month, t.day)
  <2>1. t.year \in Nat /\ t.year > 0
    BY DEF Normal
  <2>2. t.month \in 1 .. 12 /\ t.day \in 1 .. DaysIn(t.year, t.month)
    BY DEF IsDate
  <2> QED BY <2>1, <2>2 DEF IsDay
<1>2. n \in Int
  BY <1>1, DayWithin
<1>3. h \in 0 .. 23 /\ i \in 0 .. 59 /\ s \in 0 .. 59
  BY DEF Normal
<1>4. convertTime(t) = ((n * 24 + h) * 60 + i) * 60 + s
  BY DEF convertTime, Seconds, Number
<1>5. SecondsInDay(t) = (h * 60 + i) * 60 + s
  BY DEF SecondsInDay
<1> HIDE DEF h, i, s, n
<1>6. /\ InDay((h * 60 + i) * 60 + s)
      /\ ((n * 24 + h) * 60 + i) * 60 + s = n * 86400 + ((h * 60 + i) * 60 + s)
  <2>1. h \in Int /\ i \in Int /\ s \in Int
    BY <1>3, SMT
  <2>2. (h * 60 + i) * 60 + s \in Nat /\ (h * 60 + i) * 60 + s < 86400
    BY <1>3, SMT
  <2>3. ((n * 24 + h) * 60 + i) * 60 + s = n * 86400 + ((h * 60 + i) * 60 + s)
    BY <1>2, <2>1, SMT
  <2> QED BY <2>2, <2>3 DEF InDay
<1>7. InDay(SecondsInDay(t)) /\ convertTime(t) = n * 86400 + SecondsInDay(t)
  BY <1>4, <1>5, <1>6
<1> QED BY <1>1, <1>2, <1>7 DEF n

LEMMA GmtimeIs ==
  ASSUME NEW s, NEW n, n = s \div 86400, NEW c, c = s % 86400,
         NEW y, y = YearOf(n), NEW m, m = MonthIn(y, n)
  PROVE  gmtime_r(s) =
           [tm_year |-> y - 1900, tm_mon |-> m - 1, tm_mday |-> n - FirstOf(y, m) + 1,
            tm_hour |-> c \div 3600, tm_min |-> (c \div 60) % 60, tm_sec |-> c % 60]
BY DEF gmtime_r, MonthIn, FirstOf

Shown(s) ==
  LET tm == gmtime_r(s)
  IN [year |-> tm.tm_year + 1900, month |-> MonthOf(tm), day |-> tm.tm_mday,
      hour |-> tm.tm_hour, minite |-> tm.tm_min, second |-> tm.tm_sec]


LEMMA Fields ==
  ASSUME NEW c, InDay(c), NEW h, h = c \div 3600, NEW i, i = (c \div 60) % 60, NEW e, e = c % 60
  PROVE  /\ h \in 0 .. 23 /\ i \in 0 .. 59 /\ e \in 0 .. 59
         /\ c = (h * 60 + i) * 60 + e
<1> DEFINE a == c \div 60
           b == a \div 60
<1>1. c \in Nat /\ c < 86400
  BY DEF InDay
<1>2. a \in Nat /\ e \in 0 .. 59 /\ c = a * 60 + e
  BY <1>1, SMT
<1>3. h \in Nat /\ h * 3600 <= c /\ c < h * 3600 + 3600
  BY <1>1, SMT
<1>4. i = a % 60
  OBVIOUS
<1> HIDE DEF a
<1>5. b \in Nat /\ i \in 0 .. 59 /\ a = b * 60 + i
  BY <1>2, <1>4, SMT
<1> HIDE DEF b
<1>6. ~(h < b) /\ ~(b < h)
  BY <1>2, <1>3, <1>5, SMT
<1>7. h = b
  BY <1>3, <1>5, <1>6, SMT
<1>8. h \in 0 .. 23
  BY <1>1, <1>3, SMT
<1>9. c = (h * 60 + i) * 60 + e
  BY <1>2, <1>5, <1>7, SMT
<1> QED BY <1>2, <1>5, <1>8, <1>9

LEMMA OneTime ==
  ASSUME NEW t \in Normal, NEW u \in Normal, SecondsInDay(t) = SecondsInDay(u)
  PROVE  t.hour = u.hour /\ t.minite = u.minite /\ t.second = u.second
<1> DEFINE h == t.hour
           i == t.minite
           s == t.second
           k == u.hour
           j == u.minite
           r == u.second
<1>1. h \in 0 .. 23 /\ i \in 0 .. 59 /\ s \in 0 .. 59 /\ k \in 0 .. 23 /\ j \in 0 .. 59 /\ r \in 0 .. 59
  BY DEF Normal
<1>2. (h * 60 + i) * 60 + s = (k * 60 + j) * 60 + r
  BY DEF SecondsInDay
<1> HIDE DEF h, i, s, k, j, r
<1>3. h * 3600 + i * 60 + s = k * 3600 + j * 60 + r
  BY <1>1, <1>2, SMT
<1>4. ~(h < k) /\ ~(k < h)
  BY <1>1, <1>3, SMT
<1>5. h = k
  BY <1>1, <1>4, SMT
<1>6. i * 60 + s = j * 60 + r
  BY <1>1, <1>3, <1>5, SMT
<1>7. ~(i < j) /\ ~(j < i)
  BY <1>1, <1>6, SMT
<1>8. i = j
  BY <1>1, <1>7, SMT
<1>9. s = r
  BY <1>1, <1>6, <1>8, SMT
<1> QED BY <1>5, <1>8, <1>9 DEF h, i, s, k, j, r

(* What is read is a date, and its seconds are those of the clock.          *)
LEMMA ShownIs ==
  ASSUME NEW s, InTimes(s)
  PROVE  /\ Shown(s) \in Normal /\ IsDate(Shown(s))
         /\ convertTime(Shown(s)) = s
<1> DEFINE n == s \div 86400
           c == s % 86400
           y == YearOf(n)
           m == MonthIn(y, n)
           d == n - FirstOf(y, m) + 1
           t == Shown(s)
<1>1. s \in Nat /\ n < DayNumber(2099, 11, 1)
  BY DEF InTimes
<1>2. n \in Nat /\ InDay(c) /\ s = n * 86400 + c
  BY <1>1, SMT DEF InDay
<1>3. y \in 1970 .. 2100
  <2> HIDE DEF n
  <2> QED BY <1>1, <1>2, YearIs
<1>4. IsDay(y, m, d) /\ Number(y, m, d) = n
  <2> HIDE DEF n
  <2> QED BY <1>1, <1>2, DayIs
<1>5. gmtime_r(s) =
        [tm_year |-> y - 1900, tm_mon |-> m - 1, tm_mday |-> d,
         tm_hour |-> c \div 3600, tm_min |-> (c \div 60) % 60, tm_sec |-> c % 60]
  BY GmtimeIs
<1> DEFINE h == c \div 3600
           i == (c \div 60) % 60
           e == c % 60
<1>6. h \in 0 .. 23 /\ i \in 0 .. 59 /\ e \in 0 .. 59 /\ c = (h * 60 + i) * 60 + e
  <2>1. InDay(c)
    BY <1>2
  <2> HIDE DEF c
  <2> QED BY <2>1, Fields
<1>7. m \in 1 .. 12 /\ d \in 1 .. DaysIn(y, m) /\ d \in Int
  BY <1>4 DEF IsDay, DaysIn
<1> HIDE DEF h, i, e, n, y, m, c, d
<1>8. (y - 1900) + 1900 = y /\ (m - 1) + 1 = m
  BY <1>3, <1>7
<1>9. t = [year |-> y, month |-> m, day |-> d, hour |-> h, minite |-> i, second |-> e]
  BY <1>5, <1>8 DEF Shown, MonthOf, h, i, e
<1> HIDE DEF t
<1>10. t \in Normal /\ IsDate(t)
  <2>1. y \in Nat /\ y >= 1970
    BY <1>3
  <2> QED BY <1>6, <1>7, <1>9, <2>1 DEF Normal, IsDate
<1>11. SecondsInDay(t) = c
  BY <1>6, <1>9 DEF SecondsInDay
<1>12. convertTime(t) = n * 86400 + c
  BY <1>4, <1>9, <1>10, <1>11, ConvertIs
<1> QED BY <1>2, <1>10, <1>12 DEF t

(* Two dates with the seconds of one moment are one.                        *)
LEMMA OneMoment ==
  ASSUME NEW t \in Normal, NEW u \in Normal, IsDate(t), IsDate(u), convertTime(t) = convertTime(u)
  PROVE  t = u
<1> DEFINE a == Number(t.year, t.month, t.day)
           b == SecondsInDay(t)
           c == Number(u.year, u.month, u.day)
           d == SecondsInDay(u)
<1>1. /\ IsDay(t.year, t.month, t.day) /\ IsDay(u.year, u.month, u.day)
      /\ a \in Int /\ InDay(b) /\ c \in Int /\ InDay(d)
      /\ a * 86400 + b = c * 86400 + d
  BY ConvertIs
<1> HIDE DEF a, b, c, d
<1>2. a = c /\ b = d
  <2> SUFFICES ASSUME a \in Int, InDay(b), c \in Int, InDay(d),
                      a * 86400 + b = c * 86400 + d
               PROVE  a = c /\ b = d
    BY <1>1
  <2>1. b \in Nat /\ b < 86400 /\ d \in Nat /\ d < 86400
    BY DEF InDay
  <2>2. ~(a < c) /\ ~(c < a)
    BY <2>1, SMT
  <2>3. a = c
    BY <2>2, SMT
  <2> QED BY <2>1, <2>3, SMT
<1>3. t.year = u.year /\ t.month = u.month /\ t.day = u.day
  BY <1>1, <1>2, OneDate DEF a, c
<1>4. SecondsInDay(t) = SecondsInDay(u)
  BY <1>2 DEF b, d
<1>5. t.hour = u.hour /\ t.minite = u.minite /\ t.second = u.second
  BY <1>4, OneTime
<1> QED BY <1>3, <1>5 DEF Normal

(* A second later is one more.                                              *)
LEMMA LaterIs ==
  ASSUME NEW t \in Normal, IsDate(t)
  PROVE  /\ SecondLater(t) \in Normal /\ IsDate(SecondLater(t))
         /\ convertTime(SecondLater(t)) = convertTime(t) + 1
<1> DEFINE y == t.year
           m == t.month
           d == t.day
           h == t.hour
           i == t.minite
           s == t.second
           u == SecondLater(t)
           n == Number(y, m, d)
<1>1. /\ y \in Nat /\ y >= 1970 /\ m \in 1 .. 12 /\ d \in 1 .. DaysIn(y, m)
      /\ h \in 0 .. 23 /\ i \in 0 .. 59 /\ s \in 0 .. 59
      /\ t = [year |-> y, month |-> m, day |-> d, hour |-> h, minite |-> i, second |-> s]
  BY DEF Normal, IsDate
<1>2. n \in Int /\ convertTime(t) = n * 86400 + SecondsInDay(t)
  BY ConvertIs
<1>3. SecondsInDay(t) = (h * 60 + i) * 60 + s
  BY DEF SecondsInDay
<1> DEFINE next == NextDate([year |-> y, month |-> m, mday |-> d])
<1>4. u = IF s < 59 THEN [t EXCEPT !.second = @ + 1]
          ELSE IF i < 59 THEN [t EXCEPT !.second = 0, !.minite = @ + 1]
          ELSE IF h < 23 THEN [t EXCEPT !.second = 0, !.minite = 0, !.hour = @ + 1]
          ELSE [year |-> next.year, month |-> next.month, day |-> next.mday,
                hour |-> 0, minite |-> 0, second |-> 0]
  BY DEF SecondLater
<1> HIDE DEF y, m, d, h, i, s, n, u, next
<1> DEFINE At(k, j, r) == (k * 60 + j) * 60 + r
(* Within the day.                                                          *)
<1>5. ASSUME NEW k \in 0 .. 23, NEW j \in 0 .. 59, NEW r \in 0 .. 59,
             u = [year |-> y, month |-> m, day |-> d, hour |-> k, minite |-> j, second |-> r],
             At(k, j, r) = (h * 60 + i) * 60 + s + 1
      PROVE  u \in Normal /\ IsDate(u) /\ convertTime(u) = convertTime(t) + 1
  <2>1. u \in Normal /\ IsDate(u)
    BY <1>1, <1>5 DEF Normal, IsDate
  <2>2. convertTime(u) = Number(u.year, u.month, u.day) * 86400 + SecondsInDay(u)
    BY <2>1, ConvertIs
  <2>3. Number(u.year, u.month, u.day) = n
    BY <1>5 DEF n
  <2>4. SecondsInDay(u) = (k * 60 + j) * 60 + r
    BY <1>5 DEF SecondsInDay
  <2> DEFINE a == (h * 60 + i) * 60 + s
             b == n * 86400
  <2>5. a \in Int /\ b \in Int
    <3>1. h \in Int /\ i \in Int /\ s \in Int
      BY <1>1, SMT
    <3> QED BY <1>2, <3>1, SMT
  <2> HIDE DEF a, b
  <2>6. convertTime(u) = b + (a + 1)
    BY <1>5, <2>2, <2>3, <2>4 DEF a, b
  <2>7. convertTime(t) = b + a
    BY <1>2, <1>3 DEF a, b
  <2>8. convertTime(u) = convertTime(t) + 1
    BY <2>5, <2>6, <2>7, SMT
  <2> QED BY <2>1, <2>8
<1> HIDE DEF At
<1>6. CASE s < 59
  <2>1. u = [year |-> y, month |-> m, day |-> d, hour |-> h, minite |-> i, second |-> s + 1]
    BY <1>1, <1>4, <1>6
  <2>2. s + 1 \in 0 .. 59 /\ At(h, i, s + 1) = (h * 60 + i) * 60 + s + 1
    BY <1>1, <1>6, SMT DEF At
  <2> DEFINE k == h
             j == i
             r == s + 1
  <2>3. /\ k \in 0 .. 23 /\ j \in 0 .. 59 /\ r \in 0 .. 59
        /\ At(k, j, r) = (h * 60 + i) * 60 + s + 1
        /\ u = [year |-> y, month |-> m, day |-> d, hour |-> k, minite |-> j, second |-> r]
    BY <1>1, <2>1, <2>2
  <2> HIDE DEF k, j, r
  <2>4. u \in Normal /\ IsDate(u) /\ convertTime(u) = convertTime(t) + 1
    BY <1>5, <2>3
  <2> QED BY <2>4 DEF u
<1>7. CASE ~(s < 59) /\ i < 59
  <2>1. u = [year |-> y, month |-> m, day |-> d, hour |-> h, minite |-> i + 1, second |-> 0]
    <3>1. u = [[year |-> y, month |-> m, day |-> d, hour |-> h, minite |-> i, second |-> s] EXCEPT !.second = 0, !.minite = @ + 1]
      BY <1>1, <1>4, <1>7
    <3> QED BY <3>1
  <2>2. /\ i + 1 \in 0 .. 59 /\ 0 \in 0 .. 59
        /\ At(h, i + 1, 0) = (h * 60 + i) * 60 + s + 1
    BY <1>1, <1>7, SMT DEF At
  <2> DEFINE k == h
             j == i + 1
             r == 0
  <2>3. /\ k \in 0 .. 23 /\ j \in 0 .. 59 /\ r \in 0 .. 59
        /\ At(k, j, r) = (h * 60 + i) * 60 + s + 1
        /\ u = [year |-> y, month |-> m, day |-> d, hour |-> k, minite |-> j, second |-> r]
    BY <1>1, <2>1, <2>2
  <2> HIDE DEF k, j, r
  <2>4. u \in Normal /\ IsDate(u) /\ convertTime(u) = convertTime(t) + 1
    BY <1>5, <2>3
  <2> QED BY <2>4 DEF u
<1>8. CASE ~(s < 59) /\ ~(i < 59) /\ h < 23
  <2>1. u = [year |-> y, month |-> m, day |-> d, hour |-> h + 1, minite |-> 0, second |-> 0]
    <3>1. u = [[year |-> y, month |-> m, day |-> d, hour |-> h, minite |-> i, second |-> s]
                 EXCEPT !.second = 0, !.minite = 0, !.hour = @ + 1]
      BY <1>1, <1>4, <1>8
    <3> QED BY <3>1
  <2>2. /\ h + 1 \in 0 .. 23 /\ 0 \in 0 .. 59
        /\ At(h + 1, 0, 0) = (h * 60 + i) * 60 + s + 1
    BY <1>1, <1>8, SMT DEF At
  <2> DEFINE k == h + 1
             j == 0
             r == 0
  <2>3. /\ k \in 0 .. 23 /\ j \in 0 .. 59 /\ r \in 0 .. 59
        /\ At(k, j, r) = (h * 60 + i) * 60 + s + 1
        /\ u = [year |-> y, month |-> m, day |-> d, hour |-> k, minite |-> j, second |-> r]
    BY <1>1, <2>1, <2>2
  <2> HIDE DEF k, j, r
  <2>4. u \in Normal /\ IsDate(u) /\ convertTime(u) = convertTime(t) + 1
    BY <1>5, <2>3
  <2> QED BY <2>4 DEF u
(* Over midnight.                                                           *)
<1>9. CASE ~(s < 59) /\ ~(i < 59) /\ ~(h < 23)
  <2> DEFINE D == [year |-> y, month |-> m, mday |-> d]
  <2>1. u = [year |-> next.year, month |-> next.month, day |-> next.mday,
             hour |-> 0, minite |-> 0, second |-> 0]
    BY <1>4, <1>9
  <2>2. DaysIn(y, m) \in 28 .. 31
    BY DEF DaysIn
  <2>3. D \in Date /\ D.year >= 1970 /\ D.mday <= DaysIn(D.year, D.month)
    BY <1>1, <2>2 DEF Date
  <2> HIDE DEF D
  <2>4. /\ NextDate(D) \in Date /\ NextDate(D).year >= 1970
        /\ NextDate(D).mday <= DaysIn(NextDate(D).year, NextDate(D).month)
        /\ Number(NextDate(D).year, NextDate(D).month, NextDate(D).mday)
             = Number(D.year, D.month, D.mday) + 1
    BY <2>3, NextDateIsOneMore
  <2>5. Number(D.year, D.month, D.mday) = n
    BY DEF D, n
  <2>6. /\ next \in Date /\ next.year >= 1970
        /\ next.mday <= DaysIn(next.year, next.month)
        /\ Number(next.year, next.month, next.mday) = n + 1
    BY <2>4, <2>5 DEF next, D
  <2>7. u \in Normal /\ IsDate(u)
    <3>1. /\ next.year \in Nat /\ next.month \in 1 .. 12 /\ next.mday \in 1 .. 31
      BY <2>6 DEF Date
    <3>2. DaysIn(next.year, next.month) \in Nat
      BY DEF DaysIn
    <3>3. next.mday \in 1 .. DaysIn(next.year, next.month) /\ next.mday \in Int /\ next.month \in Int
      BY <2>6, <3>1, <3>2
    <3> QED BY <2>1, <2>6, <3>1, <3>3 DEF Normal, IsDate
  <2>8. convertTime(u) = Number(u.year, u.month, u.day) * 86400 + SecondsInDay(u)
    BY <2>7, ConvertIs
  <2>9. Number(u.year, u.month, u.day) = n + 1
    BY <2>1, <2>6
  <2>10. SecondsInDay(u) = 0
    BY <2>1 DEF SecondsInDay
  <2>11. h = 23 /\ i = 59 /\ s = 59
    BY <1>1, <1>9, SMT
  <2>12. SecondsInDay(t) = 86399
    BY <1>3, <2>11, SMT
  <2>13. convertTime(u) = convertTime(t) + 1
    BY <1>2, <2>8, <2>9, <2>10, <2>12, SMT
  <2> QED BY <2>7, <2>13 DEF u
<1> QED BY <1>6, <1>7, <1>8, <1>9

-----------------------------------------------------------------------------
LEMMA InTimesBelow ==
  ASSUME NEW a \in Nat, NEW b, InTimes(b), a <= b
  PROVE  InTimes(a)
<1> DEFINE bound == DayNumber(2099, 11, 1)
<1>1. b \in Nat /\ b \div 86400 < bound
  BY DEF InTimes
<1>2. bound \in Int
  BY EpochType DEF DayNumber
<1> HIDE DEF bound
<1>3. a \div 86400 <= b \div 86400
  BY <1>1, SMT
<1>4. a \div 86400 < bound
  BY <1>1, <1>2, <1>3, SMT
<1> QED BY <1>4 DEF InTimes, bound

(* The clock stands at what was set, run on.                                *)
ClockInv ==
  /\ ticks \in 0 .. MaxTicks
  /\ system_time \in Nat /\ InTimes(system_time + (MaxTicks - ticks))
  /\ \/ intended = [seconds |-> system_time]
     \/ intended \in Normal /\ (IsDate(intended) => convertTime(intended) = system_time)

LEMMA NormalIsNotSeconds == \A t \in Normal : ~IsSeconds(t)
BY DEF Normal, IsSeconds

LEMMA ClockIsSet ==
  ASSUME NEW s \in Nat, InTimes(s + MaxTicks), NEW intent, SetClock(s, intent),
         \/ intent = [seconds |-> s]
         \/ intent \in Normal /\ convertTime(intent) = s
  PROVE  ClockInv'
<1>1. system_time' = s /\ ticks' = 0 /\ intended' = intent
  BY DEF SetClock
<1>2. ticks' \in 0 .. MaxTicks /\ MaxTicks - ticks' = MaxTicks
  BY <1>1, ClockAssumption
<1>3. InTimes(system_time' + (MaxTicks - ticks'))
  BY <1>1, <1>2
<1>4. \/ intended' = [seconds |-> system_time']
      \/ intended' \in Normal /\ convertTime(intended') = system_time'
  BY <1>1
<1>5. /\ InTimes(system_time + (MaxTicks - ticks))' = InTimes(system_time' + (MaxTicks - ticks'))
      /\ (IsDate(intended))' = IsDate(intended') /\ (convertTime(intended))' = convertTime(intended')
  BY DEF InTimes, IsDate, convertTime, DaysIn, IsLeap, Seconds, DayNumber, MarchYear, MarchMonth, LastYears, EpochDays
<1> QED BY <1>1, <1>2, <1>3, <1>4, <1>5 DEF ClockInv

LEMMA NormalTimesAreNormal == NormalTimes \subseteq Normal
<1> SUFFICES ASSUME NEW t \in NormalTimes PROVE t \in Normal
  OBVIOUS
<1>1. PICK y \in Years, m \in Months, d \in Days, c \in TimesOfDay :
        t = [year |-> y, month |-> m, day |-> d, hour |-> c.hour, minite |-> c.minute, second |-> c.second]
  BY DEF NormalTimes
<1>2. y \in Nat /\ y >= 1970 /\ m \in Int /\ d \in Int
  BY ClockAssumption
<1>3. c.hour \in 0 .. 23 /\ c.minute \in 0 .. 59 /\ c.second \in 0 .. 59
  BY TimeAssumption
<1> QED BY <1>1, <1>2, <1>3 DEF Normal

LEMMA ClockTicks ==
  ASSUME ClockInv, SecondPasses
  PROVE  ClockInv'
<1>1. /\ ticks \in 0 .. MaxTicks /\ ticks < MaxTicks /\ MaxTicks \in Nat /\ system_time \in Nat
      /\ system_time' = system_time + 1 /\ ticks' = ticks + 1 /\ intended' = Later(intended)
  BY ClockAssumption DEF ClockInv, SecondPasses
<1>2. /\ ticks' \in 0 .. MaxTicks /\ system_time' \in Nat
      /\ system_time' + (MaxTicks - ticks') = system_time + (MaxTicks - ticks)
  BY <1>1
<1>3. InTimes(system_time' + (MaxTicks - ticks'))
  BY <1>2 DEF ClockInv
<1>4. CASE intended = [seconds |-> system_time]
  <2>1. IsSeconds(intended) /\ intended.seconds = system_time
    BY <1>4 DEF IsSeconds
  <2>2. intended' = [seconds |-> system_time']
    BY <1>1, <2>1 DEF Later
  <2> QED BY <1>2, <1>3, <2>2 DEF ClockInv, InTimes
<1>5. CASE intended \in Normal /\ (IsDate(intended) => convertTime(intended) = system_time)
  <2>1. ~IsSeconds(intended)
    BY <1>5, NormalIsNotSeconds
  <2>2. IsDate(intended) => intended' \in Normal /\ convertTime(intended') = system_time'
    BY <1>1, <1>5, <2>1, LaterIs DEF Later
  <2>3. ~IsDate(intended) => intended' = intended
    BY <1>1, <2>1 DEF Later
  <2>4. ~IsDate(intended) => ~IsDate(intended')
    BY <2>3
  <2>5. intended' \in Normal /\ (IsDate(intended') => convertTime(intended') = system_time')
    BY <1>5, <2>2, <2>3, <2>4
  <2>6. /\ InTimes(system_time + (MaxTicks - ticks))' = InTimes(system_time' + (MaxTicks - ticks'))
        /\ (IsDate(intended))' = IsDate(intended') /\ (convertTime(intended))' = convertTime(intended')
    BY DEF InTimes, IsDate, convertTime, DaysIn, IsLeap, Seconds, DayNumber, MarchYear, MarchMonth, LastYears, EpochDays
  <2> QED BY <1>2, <1>3, <2>5, <2>6 DEF ClockInv
<1> QED BY <1>4, <1>5 DEF ClockInv

LEMMA ClockReadsWell ==
  ASSUME ClockInv
  PROVE  ClockReadsAsSet
<1>1. InTimes(system_time)
  <2> DEFINE b == system_time + (MaxTicks - ticks)
  <2>1. ticks \in 0 .. MaxTicks /\ system_time \in Nat /\ InTimes(b)
    BY DEF ClockInv
  <2>2. system_time <= b
    BY <2>1, ClockAssumption
  <2> HIDE DEF b
  <2> QED BY <2>1, <2>2, InTimesBelow
<1>2. getNormalTime = Shown(system_time)
  BY DEF getNormalTime, Shown
<1>3. getNormalTime \in Normal /\ IsDate(getNormalTime) /\ convertTime(getNormalTime) = system_time
  BY <1>1, <1>2, ShownIs
<1>4. CASE intended = [seconds |-> system_time]
  <2>1. IsSeconds(intended) /\ intended.seconds = system_time
    BY <1>4 DEF IsSeconds
  <2> QED BY <1>3, <2>1 DEF ClockReadsAsSet, getCalendarTime, get_systime_sec
<1>5. CASE intended \in Normal /\ (IsDate(intended) => convertTime(intended) = system_time)
  <2>1. ~IsSeconds(intended)
    BY <1>5, NormalIsNotSeconds
  <2>2. IsDate(intended) => getNormalTime = intended
    BY <1>3, <1>5, OneMoment
  <2> QED BY <1>3, <2>1, <2>2 DEF ClockReadsAsSet, getCalendarTime, get_systime_sec
<1> QED BY <1>4, <1>5 DEF ClockInv

(* The clock that setNormalTime, setCalendarTime and set_systime_sec set is *)
(* read by getNormalTime, getCalendarTime and get_systime_sec as it was set *)
(* and ran on, for all the times between 1970 and 2099 and all times that   *)
(* pass.                                                                    *)
THEOREM ClockIsRead == ClockSpec => []ClockReadsAsSet
<1>1. ClockInit => ClockInv
  <2> SUFFICES ASSUME ClockInit PROVE ClockInv
    OBVIOUS
  <2>1. system_time = 0 /\ ticks = 0 /\ intended = [seconds |-> system_time]
    BY DEF ClockInit
  <2>2. system_time + (MaxTicks - ticks) = MaxTicks /\ ticks \in 0 .. MaxTicks
    BY <2>1, ClockAssumption
  <2>3. InTimes(system_time + (MaxTicks - ticks))
    BY <2>2, TimesAssumption
  <2> QED BY <2>1, <2>2, <2>3 DEF ClockInv
<1>2. ClockInv /\ [ClockNext]_clockVars => ClockInv'
  <2> SUFFICES ASSUME ClockInv, [ClockNext]_clockVars PROVE ClockInv'
    OBVIOUS
  <2>1. ASSUME NEW s \in CalendarTimes, setCalendarTime(s) \/ set_systime_sec(s)
        PROVE  ClockInv'
    <3>1. s \in Nat /\ InTimes(s + MaxTicks)
      BY ClockAssumption, TimesAssumption
    <3>2. SetClock(s, [seconds |-> s])
      BY <2>1 DEF setCalendarTime, set_systime_sec
    <3> QED BY <3>1, <3>2, ClockIsSet
  <2>2. ASSUME NEW t \in NormalTimes, setNormalTime(t)
        PROVE  ClockInv'
    <3>1. Accepted(t) /\ SetClock(convertTime(t), t)
      BY <2>2 DEF setNormalTime
    <3>2. convertTime(t) \in Nat /\ InTimes(convertTime(t) + MaxTicks)
      BY <3>1, TimesAssumption
    <3>3. t \in Normal
      BY NormalTimesAreNormal
    <3> QED BY <3>1, <3>2, <3>3, ClockIsSet
  <2>3. CASE UNCHANGED clockVars
    BY <2>3 DEF ClockInv, clockVars, InTimes, IsDate, convertTime, DaysIn, IsLeap, Seconds, DayNumber,
                MarchYear, MarchMonth, LastYears, EpochDays
  <2>4. CASE SecondPasses
    BY <2>4, ClockTicks
  <2> QED BY <2>1, <2>2, <2>3, <2>4 DEF ClockNext, set_systime
<1>3. ClockInv => ClockReadsAsSet
  BY ClockReadsWell
<1> QED BY <1>1, <1>2, <1>3, PTL DEF ClockSpec
================================================================================
