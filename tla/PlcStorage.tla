----------------------------- MODULE PlcStorage ------------------------------
(***************************************************************************)
(* plc_storage.c and plc_program.c: the program and the Wi-Fi credentials  *)
(* in RAM, their deferred commit to flash, and what a boot makes of the    *)
(* flash.  FxProtocol adds the frames that change them.                    *)
(*                                                                         *)
(* Program memory is PAGES units of the size flash is programmed in; a     *)
(* value is a natural number up to ERASED (0xFF...), the value of erased   *)
(* flash.  Power can fail between any two page operations; one page        *)
(* operation is atomic.  Interrupts are off during a commit, so nothing    *)
(* else runs.                                                              *)
(***************************************************************************)
EXTENDS Integers, FiniteSets

CONSTANTS
    PAGES,         \* pages of the program buffer, 127 in the code
    FIRST_SECTOR,  \* how many of them share the header's sector, 15 in the code
    ERASED,        \* a page of 0xFF, the largest value
    HOLD,          \* the 2000 ms of plc_storage_task, in ticks
    CREDENTIALS,   \* SSID and key pairs the console accepts
    NoWifi         \* not provisioned

ASSUME StorageAssumption ==
    /\ PAGES \in Nat \ {0} /\ FIRST_SECTOR \in 0..PAGES
    /\ ERASED \in Nat \ {0} /\ HOLD \in Nat
    /\ NoWifi \notin CREDENTIALS

VARIABLES
    program,    \* plc_program_raw()
    wifi,       \* the RAM copy of the credentials
    dirty,
    age,        \* ticks since dirty_at_ms, as far as HOLD
    flash,      \* [header, data]
    step,       \* next operation of commit(), 0 when it is not running
    \* Auxiliary: what the last commit that finished wrote (or what the last
    \* boot found).
    saved

storage == <<program, wifi, dirty, age, flash, step, saved>>

Image == [1..PAGES -> 0..ERASED]

\* plc_program_init: the default parameter block, which is not erased, and an
\* erased program.
BlankImage == [p \in 1..PAGES |-> IF p = 1 THEN 0 ELSE ERASED]
ErasedImage == [p \in 1..PAGES |-> ERASED]
NoHeader == [magic |-> FALSE, checksum |-> 0, wifi |-> NoWifi]

\* The running sum of checksum_of after each page.
sums(image) ==
    LET sum[n \in 0..PAGES] == IF n = 0 THEN 0 ELSE sum[n - 1] + image[n]
    IN  sum
checksum_of(image) == sums(image)[PAGES]

\* Mutant of plc_storage_load: the checksum is not compared.
plc_storage_load_trusting(f) ==
    [program |-> IF f.header.magic THEN f.data ELSE BlankImage, wifi |-> f.header.wifi]

\* Mutant of plc_storage_load: a bad program image hides the credentials.
plc_storage_load_all_or_nothing(f) ==
    IF f.header.magic /\ checksum_of(f.data) = f.header.checksum
    THEN [program |-> f.data, wifi |-> f.header.wifi]
    ELSE [program |-> BlankImage, wifi |-> NoWifi]

\* What plc_program_init and plc_storage_load leave in RAM at boot.  The
\* credentials do not depend on the program image.
plc_storage_load(f) ==
    [program |-> IF f.header.magic /\ checksum_of(f.data) = f.header.checksum
                 THEN f.data ELSE BlankImage,
     wifi |-> f.header.wifi]

plc_storage_mark_dirty == dirty' = TRUE /\ age' = 0

plc_storage_wifi_set(c) == wifi' = c /\ plc_storage_mark_dirty

StorageInit ==
    /\ program = BlankImage /\ wifi = NoWifi
    /\ dirty = FALSE /\ age = 0
    /\ flash = [header |-> NoHeader, data |-> ErasedImage]
    /\ step = 0
    /\ saved = [program |-> BlankImage, wifi |-> NoWifi]

(***************************************************************************)
(* commit(), one flash operation per step                                  *)
(***************************************************************************)

ERASE_FIRST == 1
ERASE_REST == 2
HEADER == 3
LAST_STEP == HEADER + PAGES

\* plc_storage_task
StartCommit ==
    /\ step = 0 /\ dirty /\ age >= HOLD
    /\ step' = ERASE_FIRST
    /\ UNCHANGED <<program, wifi, dirty, age, flash, saved>>

\* flash_range_erase works sector by sector; the first holds the header.
EraseSector ==
    /\ step \in {ERASE_FIRST, ERASE_REST}
    /\ flash' = IF step = ERASE_FIRST
                THEN [header |-> NoHeader,
                      data |-> [p \in 1..PAGES |-> IF p <= FIRST_SECTOR THEN ERASED
                                                   ELSE flash.data[p]]]
                ELSE [flash EXCEPT !.data = ErasedImage]
    /\ step' = step + 1
    /\ UNCHANGED <<program, wifi, dirty, age, saved>>

header_page == [magic |-> TRUE, checksum |-> checksum_of(program), wifi |-> wifi]

ProgramHeader ==
    /\ step = HEADER
    /\ flash' = [flash EXCEPT !.header = header_page]
    /\ step' = step + 1
    /\ UNCHANGED <<program, wifi, dirty, age, saved>>

\* Mutant of commit_done: dirty is not cleared.
commit_done_dirty == step' = 0 /\ saved' = [program |-> program, wifi |-> wifi] /\ UNCHANGED dirty
commit_done == step' = 0 /\ saved' = [program |-> program, wifi |-> wifi] /\ dirty' = FALSE

\* Mutant of last_page: the page loop ends one page early.
last_page_early == step = LAST_STEP - 1
last_page == step = LAST_STEP

ProgramPage ==
    /\ step > HEADER
    /\ flash' = [flash EXCEPT !.data[step - HEADER] = program[step - HEADER]]
    /\ IF last_page THEN commit_done ELSE step' = step + 1 /\ UNCHANGED <<saved, dirty>>
    /\ UNCHANGED <<program, wifi, age>>

Commit == EraseSector \/ ProgramHeader \/ ProgramPage

\* Time passes in the main loop, never during a commit.
Tick ==
    /\ step = 0
    /\ age < HOLD
    /\ age' = age + 1
    /\ UNCHANGED <<program, wifi, dirty, flash, step, saved>>

\* Power is lost and comes back: RAM is rebuilt from flash.
Reboot ==
    /\ program' = plc_storage_load(flash).program
    /\ wifi' = plc_storage_load(flash).wifi
    /\ dirty' = FALSE /\ age' = 0 /\ step' = 0
    /\ saved' = IF step = 0 THEN saved ELSE [program |-> program', wifi |-> wifi']
    /\ UNCHANGED flash

(***************************************************************************)
(* Properties                                                              *)
(***************************************************************************)

\* Whenever the power fails, the boot finds the blank program, the last one
\* saved or the one being saved, never a mixture: the additive checksum of
\* commit() tells a partly programmed image apart.
NeverTorn ==
    plc_storage_load(flash).program \in
        {BlankImage, saved.program} \cup IF step # 0 THEN {program} ELSE {}

\* Unless the power fails inside commit(), program and credentials come back
\* from flash as they were last saved.
Durable == step = 0 => plc_storage_load(flash) = saved

\* Once the header page is written, the credentials are safe even if the
\* program after it is torn (plc_storage_load reads them first).
WifiIndependent == step > HEADER => plc_storage_load(flash).wifi = wifi

\* The program in memory differs from the one a boot would restore only while
\* a commit is due: "a write marks the program dirty" (plc_storage.h).
UnsavedIsDirty ==
    step = 0 /\ program # plc_storage_load(flash).program => dirty

\* What is marked dirty is saved (or lost with the power).
SavedEventually == dirty ~> ~dirty

==============================================================================
