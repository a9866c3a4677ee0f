--------------------------------- MODULE Uuid ---------------------------------
(***************************************************************************)
(* The UUID generator of source/utility/uuid/uuid.c: the state file that   *)
(* uuid_sys_init reads and writes, the static variables of                 *)
(* get_current_time, and uuid_create.  The process may end and start again *)
(* at any moment.  The system clock and the file system are external.      *)
(*                                                                         *)
(* A UUID is its time and its clock sequence: the node is the same for     *)
(* every UUID of a machine.  Only the 14 bits of the clock sequence that   *)
(* format_uuid_v1 keeps are modelled.  One thread uses the library.        *)
(***************************************************************************)
EXTENDS Integers, Sequences

CONSTANTS
  Resolution,      \* units of 100 ns between two readings of the clock
  UUIDS_PER_TICK,
  ClockSeqs,       \* the number of clock sequences a UUID can tell apart
  Mishaps,         \* what may go wrong; one of them is chosen at the start
  MaxClock,        \* bound on the clock
  MaxIssued        \* bound on the number of UUIDs

ASSUME UuidAssumption ==
  /\ Resolution \in Nat /\ Resolution > 1
  /\ UUIDS_PER_TICK \in Nat \ {0}
  /\ ClockSeqs \in Nat \ {0}
  /\ Mishaps \subseteq {"none", "clock_set_back", "file_lost"}
  /\ MaxClock \in Nat /\ MaxIssued \in Nat

VARIABLES
  mishap,
  clock,            \* what get_system_time reads
  whole,            \* the state file holds a whole uuid_state
  saved,            \* that uuid_state
  library,          \* "down", "writing" (the file is truncated) or "up"
  state,            \* *global_uuid_state_ptr
  IsFirstTime, time_last, uuids_this_tick,  \* of get_current_time
  firstSeq, rounds, \* history: the random clock sequence and its increments, up to ClockSeqs
  asked,            \* history: the UUIDs of this reading of the clock, see Crowded
  standing,         \* history: of the clock sequence in use, see SetBack
  issued            \* history: the UUIDs given, in order

static == <<IsFirstTime, time_last, uuids_this_tick>>
file == <<whole, saved>>
sequence == <<firstSeq, rounds, standing>>
uuidVars == <<mishap, clock, file, library, state, static, sequence, asked, issued>>

NoState == [ts |-> 0, cs |-> 0]

UuidInit ==
  /\ mishap \in Mishaps
  /\ clock = 0
  /\ whole = FALSE /\ saved = NoState
  /\ library = "down" /\ state = NoState
  /\ IsFirstTime = TRUE /\ time_last = 0 /\ uuids_this_tick = 0
  /\ firstSeq = 0 /\ rounds = 0
  /\ asked = "no" /\ standing = "own"
  /\ issued = <<>>

-----------------------------------------------------------------------------
(* get_current_time.  time_last is assigned by the first call only, so that *)
(* calls are counted within the tick of that call and in no other.          *)
NextTick == IF uuids_this_tick + 1 >= UUIDS_PER_TICK THEN 0 ELSE uuids_this_tick + 1

Tick == IF ~IsFirstTime /\ clock = time_last THEN NextTick ELSE 0

Timestamp == clock + Tick

get_current_time ==
  /\ IsFirstTime' = FALSE
  /\ time_last' = IF IsFirstTime THEN clock ELSE time_last
  /\ uuids_this_tick' = Tick

(* cs++ on an unsigned number that wraps.                                   *)
NextSeq(c) == IF c + 1 = ClockSeqs THEN 0 ELSE c + 1

SetBackSeen == Timestamp < saved.ts
SameSeq == saved.cs
SavedSeq == IF SetBackSeen THEN NextSeq(saved.cs) ELSE saved.cs

(* No code knows the rest.  A call is crowded when UUIDs were given at this *)
(* reading of the clock and its own is not counted on from theirs: asked is *)
(* "here" while the counter knows of all of them, then "before".            *)
Crowded == asked = "before" \/ (asked = "here" /\ Tick = 0)
AskedThen(now) == IF Crowded THEN "before" ELSE now

Past(c) == \A i \in DOMAIN issued : issued[i].cs = c => issued[i].time < clock

(* A clock that was set back and has passed the last start again is not     *)
(* seen, and clock sequences come round.                                    *)
StandingRead ==
  CASE SetBackSeen -> IF rounds + 1 < ClockSeqs THEN "own" ELSE "reused"
    [] ~SetBackSeen /\ standing = "doubted" -> IF Past(saved.cs) THEN "own" ELSE "reused"
    [] OTHER -> standing

(* uuid_sys_init up to fopen(.., "wb"), which truncates the file.           *)
ReadState ==
  /\ whole
  /\ state' = [ts |-> Timestamp, cs |-> SavedSeq]
  /\ rounds' = IF SetBackSeen /\ rounds < ClockSeqs THEN rounds + 1 ELSE rounds
  /\ standing' = StandingRead
  /\ UNCHANGED firstSeq

(* What true_random may return, cut to the bits that a UUID keeps.          *)
true_random == 0 .. ClockSeqs - 1

NewState ==
  /\ ~whole
  /\ \E cs \in true_random :
       /\ state' = [ts |-> Timestamp, cs |-> cs]
       /\ firstSeq' = cs
  /\ rounds' = 0 /\ standing' = "own"

BeginInit ==
  /\ library # "writing"
  /\ ReadState \/ NewState
  /\ get_current_time
  /\ whole' = FALSE /\ saved' = NoState
  /\ library' = "writing"
  /\ asked' = AskedThen(asked)
  /\ UNCHANGED <<mishap, clock, issued>>

(* The file cannot be opened for writing: ErrExit, the state is freed.      *)
OpenFails ==
  /\ library # "writing"
  /\ get_current_time
  /\ library' = "down" /\ state' = NoState
  /\ asked' = AskedThen(asked)
  /\ UNCHANGED <<mishap, clock, file, sequence, issued>>

(* malloc fails, and its NULL takes the place of the state in use.          *)
OutOfMemory ==
  /\ library # "writing"
  /\ library' = "down" /\ state' = NoState
  /\ UNCHANGED <<mishap, clock, file, static, sequence, asked, issued>>

EndInit ==
  /\ library = "writing"
  /\ whole' = TRUE
  /\ saved' = state
  /\ library' = "up"
  /\ UNCHANGED <<mishap, clock, state, static, sequence, asked, issued>>

WriteFails ==
  /\ library = "writing"
  /\ mishap = "file_lost"
  /\ library' = "down" /\ state' = NoState
  /\ UNCHANGED <<mishap, clock, file, static, sequence, asked, issued>>

uuid_create ==
  /\ library = "up"
  /\ get_current_time
  /\ issued' = Append(issued, [time |-> Timestamp, cs |-> state.cs, over |-> Tick >= Resolution])
  /\ asked' = AskedThen("here")
  /\ UNCHANGED <<mishap, clock, file, library, state, sequence>>

(* The process ends, and with it the static variables.                      *)
Stop ==
  /\ library = "writing" => mishap = "file_lost"
  /\ library' = "down" /\ state' = NoState
  /\ IsFirstTime' = TRUE /\ time_last' = 0 /\ uuids_this_tick' = 0
  /\ asked' = IF asked = "no" THEN "no" ELSE "before"
  /\ UNCHANGED <<mishap, clock, file, sequence, issued>>

(* The clock goes on, or is set back.  A clock sequence in use may then have *)
(* had this time before; that of the last start is doubted till the next.   *)
Advance ==
  /\ clock + Resolution <= MaxClock
  /\ clock' = clock + Resolution
  /\ asked' = "no"
  /\ UNCHANGED <<mishap, file, library, state, static, sequence, issued>>

SetBack ==
  /\ mishap = "clock_set_back"
  /\ clock >= Resolution
  /\ clock' = clock - Resolution
  /\ asked' = "no"
  /\ standing' = IF library = "down" /\ standing = "own" THEN "doubted"
                  ELSE IF library = "down" THEN standing ELSE "reused"
  /\ UNCHANGED <<mishap, file, library, state, static, firstSeq, rounds, issued>>

(* MaxIssued bounds a behaviour: it ends with its last UUID.                *)
UuidNext ==
  /\ Len(issued) < MaxIssued
  /\ \/ BeginInit \/ OpenFails \/ OutOfMemory \/ EndInit \/ WriteFails
     \/ uuid_create
     \/ Stop
     \/ Advance \/ SetBack

UuidSpec == UuidInit /\ [][UuidNext]_uuidVars

-----------------------------------------------------------------------------
(* uuid_create never gives a UUID that it gave before, in this process or   *)
(* in an earlier one.                                                       *)
UuidsDiffer ==
  \A i, j \in DOMAIN issued :
    i # j => issued[i].time # issued[j].time \/ issued[i].cs # issued[j].cs

(* The clock sequence and the counter keep UUIDs apart over restarts, clocks *)
(* set back and lost files: there are three ways only to a UUID that was    *)
(* given before.  The call comes at a reading of the clock that had others  *)
(* and is not counted on from them (uuid.c:188); or the clock sequence was  *)
(* in use at this time before, because the clock was set back and no start  *)
(* saw it (uuid.c:88), or because all clock sequences were used; or the     *)
(* earlier UUID was counted past the end of its own reading.                *)
RepeatsExplained ==
  [][uuid_create =>
       \A i \in DOMAIN issued :
         issued[i].time = Timestamp /\ issued[i].cs = state.cs =>
           Crowded \/ standing = "reused" \/ issued[i].over]_uuidVars
=============================================================================
