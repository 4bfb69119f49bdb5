----------------------------- MODULE FxProtocol ------------------------------
(***************************************************************************)
(* handle_frame of fx_protocol.c for the commands that change the program, *)
(* the credentials or the mode, on top of PlcStorage: one action per       *)
(* complete frame (sum check already verified or failed).                  *)
(*                                                                         *)
(* Addresses: 1..PAGES is program memory (0x8000 and up); 0 is the gap     *)
(* below it, where a write has no effect.  One unit is the 2 bytes of the  *)
(* transfer check.                                                         *)
(***************************************************************************)
EXTENDS PlcStorage, Sequences

CONSTANTS
    VALUES,      \* what the host writes
    CHECK,       \* the transfer check value GX Works sends after E41
    FRAMES,      \* the kinds of frame this host sends
    MAX_FRAMES,  \* bound on frames that change something
    MAX_CUTS     \* bound on power failures

ASSUME FxAssumption ==
    /\ VALUES \subseteq 0..ERASED
    /\ CHECK \in 0..ERASED \ (VALUES \cup {0, ERASED})  \* told apart from data
    /\ MAX_FRAMES \in Nat /\ MAX_CUTS \in Nat

VARIABLES
    mode,                   \* plc_scan_get_mode()
    program_check_pending,
    program_check_addr,
    \* Auxiliary: the check frame the host has just sent or still owes (0 if
    \* none), and counters for the two bounds.
    announced, sent_check, frames, cuts

check == <<program_check_pending, program_check_addr>>
host == <<announced, sent_check>>
vars == <<storage, mode, check, host, frames, cuts>>

Init ==
    /\ StorageInit
    /\ mode = "RUN"
    /\ program_check_pending = FALSE /\ program_check_addr = 0
    /\ announced = 0 /\ sent_check = 0 /\ frames = 0 /\ cuts = 0

\* The main loop takes a frame between two scans, never during a commit.
Receive(kind) ==
    /\ kind \in FRAMES
    /\ step = 0
    /\ UNCHANGED <<flash, step, saved, cuts>>

Counted == frames < MAX_FRAMES /\ frames' = frames + 1

\* fx_addr_write_byte over consecutive addresses.
Written(addr, values) ==
    [p \in 1..PAGES |-> IF p \in addr..(addr + Len(values) - 1)
                        THEN values[p - addr + 1] ELSE program[p]]

Payloads == {<<v>> : v \in VALUES} \cup {<<u, v>> : u \in VALUES, v \in VALUES}

\* Commands 0 and E00/E01: a read, or a frame that is rejected.
ReadOrReject ==
    /\ Receive("read")
    /\ UNCHANGED <<program, wifi, dirty, age, mode, check, host, frames>>

\* Command 1 writes device or program memory and never marks it dirty.  Cut off
\* by a bad digit, it has the effect of a shorter one.
DeviceWrite(addr, values) ==
    /\ Receive("device_write") /\ Counted
    /\ program' = Written(addr, values)
    /\ announced' = 0 /\ sent_check' = 0
    /\ UNCHANGED <<wifi, dirty, age, mode, check>>

\* E41: announces a program range.
AnnounceRange(addr) ==
    /\ Receive("E41") /\ Counted
    /\ program_check_pending' = TRUE /\ program_check_addr' = addr + 1
    /\ announced' = addr + 1 /\ sent_check' = 0
    /\ UNCHANGED <<program, wifi, dirty, age, mode>>

\* Mutant of is_check: the transfer check is taken for data.
is_check_never(addr, count) == FALSE
is_check(addr, count) == program_check_pending /\ count = 1 /\ addr = program_check_addr

\* Mutant of mark_program: the first address of program memory is forgotten.
mark_program_above(addr) ==
    IF addr > 1 THEN plc_storage_mark_dirty ELSE UNCHANGED <<dirty, age>>
mark_program(addr) ==
    IF addr >= 1 THEN plc_storage_mark_dirty ELSE UNCHANGED <<dirty, age>>

\* E10/E11.  The word write right after E41 at the announced address plus one
\* is acknowledged and dropped.
extended_write(addr, values) ==
    /\ program_check_pending' = FALSE
    /\ IF is_check(addr, Len(values))
       THEN UNCHANGED <<program, dirty, age>>
       ELSE program' = Written(addr, values) /\ mark_program(addr)
    /\ UNCHANGED <<wifi, mode, program_check_addr>>

\* "below": the host also sends frames that begin under program memory.
ExtendedWrite(addr, values) ==
    /\ Receive("E11") /\ Counted
    /\ addr = 0 => "below" \in FRAMES
    /\ extended_write(addr, values)
    /\ announced' = 0 /\ sent_check' = 0

\* A digit that is not hex after n good ones: what precedes it stays written,
\* the frame is rejected before the mark.
ExtendedWriteBad(addr, values, n) ==
    /\ Receive("E11_bad") /\ Counted
    /\ program_check_pending' = FALSE
    /\ program' = IF is_check(addr, Len(values)) THEN program
                  ELSE Written(addr, SubSeq(values, 1, n))
    /\ announced' = 0 /\ sent_check' = 0
    /\ UNCHANGED <<wifi, dirty, age, mode, program_check_addr>>

\* GX Works finishes a range with the check value at the address announced.
SendCheck ==
    /\ announced # 0
    /\ Receive("check")
    /\ extended_write(announced, <<CHECK>>)
    /\ sent_check' = announced /\ announced' = 0
    /\ UNCHANGED frames

\* The acknowledgement of the check was lost and the host repeats the frame.
RepeatCheck ==
    /\ sent_check # 0
    /\ Receive("repeat")
    /\ extended_write(sent_check, <<CHECK>>)
    /\ sent_check' = 0
    /\ UNCHANGED <<announced, frames>>

\* B, and the forces of M8036 and M8037.
SetMode(m) ==
    /\ Receive("mode") /\ mode' = m
    /\ announced' = 0 /\ sent_check' = 0
    /\ UNCHANGED <<program, wifi, dirty, age, check, frames>>

\* The console line "wifi <ssid> <key>".
ConsoleWifi(c) ==
    /\ Receive("wifi") /\ Counted
    /\ plc_storage_wifi_set(c)
    /\ UNCHANGED <<program, mode, check, host>>

PowerCut ==
    /\ cuts < MAX_CUTS /\ cuts' = cuts + 1
    /\ Reboot
    /\ mode' = "RUN"
    /\ program_check_pending' = FALSE /\ program_check_addr' = 0
    /\ announced' = 0 /\ sent_check' = 0
    /\ UNCHANGED frames

Store == (StartCommit \/ Commit) /\ UNCHANGED <<mode, check, host, frames, cuts>>
Time == Tick /\ UNCHANGED <<mode, check, host, frames, cuts>>

Frame ==
    \/ ReadOrReject
    \/ \E addr \in 0..PAGES, values \in Payloads :
          \/ DeviceWrite(addr, values)
          \/ ExtendedWrite(addr, values)
          \/ \E n \in 0..(Len(values) - 1) : ExtendedWriteBad(addr, values, n)
    \/ \E addr \in 1..PAGES : AnnounceRange(addr)
    \/ SendCheck \/ RepeatCheck
    \/ \E m \in {"RUN", "STOP"} : SetMode(m)
    \/ \E c \in CREDENTIALS : ConsoleWifi(c)

Next == Frame \/ Store \/ Time \/ PowerCut

Spec == Init /\ [][Next]_vars

\* The main loop calls plc_storage_task on every turn and the clock advances.
FairSpec == Spec /\ WF_vars(Store) /\ WF_vars(Time)

\* The transfer check value never gets into the instruction image: it would
\* overwrite an instruction (the comment in the E11 branch).
CheckNotStored == \A p \in 1..PAGES : program[p] # CHECK

==============================================================================
