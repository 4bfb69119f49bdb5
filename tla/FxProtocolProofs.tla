-------------------------- MODULE FxProtocolProofs ---------------------------
(***************************************************************************)
(* Flash and program memory for every number of pages and every sequence   *)
(* of frames and power failures.                                           *)
(***************************************************************************)
EXTENDS FxProtocol, Induction, TLAPS

\* Program memory and flash data are images of PAGES pages.
ImageInv ==
    /\ step \in 0..LAST_STEP
    /\ program \in Image
    /\ flash = [header |-> flash.header, data |-> flash.data]
    /\ flash.data \in Image

\* The part of a commit that is done: after the header step the header
\* describes what is in RAM, and the pages before the next one are written.
CommitInv ==
    step > HEADER =>
        /\ flash.header = header_page
        /\ \A p \in 1..PAGES : p < step - HEADER => flash.data[p] = program[p]

\* Durable is inductive only together with what a running commit has done.
FlashInv == ImageInv /\ CommitInv /\ Durable

\* The counters of the host.
HostInv == announced \in 0..(PAGES + 1) /\ sent_check \in 0..(PAGES + 1)

------------------------------------------------------------------------------
(* Images *)

\* The images the code starts from, and the one a boot restores.
LEMMA BootImages ==
    /\ BlankImage \in Image /\ ErasedImage \in Image
    /\ ImageInv => plc_storage_load(flash).program \in Image
  <1>1. BlankImage \in Image /\ ErasedImage \in Image
    BY StorageAssumption DEF BlankImage, ErasedImage, Image
  <1> QED BY <1>1 DEF plc_storage_load, ImageInv

\* A payload has at least one value, all of them values of a page.
LEMMA PayloadType ==
    ASSUME NEW values \in Payloads
    PROVE  /\ values \in Seq(VALUES) /\ Len(values) \in Nat
           /\ \A n \in 0..(Len(values) - 1) : SubSeq(values, 1, n) \in Seq(VALUES)
  <1>1. values \in Seq(VALUES) /\ Len(values) \in {1, 2}
    <2>1. CASE \E v \in VALUES : values = <<v>>
      BY <2>1
    <2>2. CASE \E u \in VALUES, v \in VALUES : values = <<u, v>>
      BY <2>2
    <2> QED BY <2>1, <2>2 DEF Payloads
  <1>2. ASSUME NEW n \in 0..(Len(values) - 1)
        PROVE  SubSeq(values, 1, n) \in Seq(VALUES)
    <2>1. n \in Nat /\ n <= Len(values)
      BY <1>1
    <2>2. \A i \in 1..n : values[i] \in VALUES
      BY <1>1, <2>1
    <2> QED BY <1>1, <2>1, <2>2
  <1> QED BY <1>1, <1>2

\* Writing values of a page into an image gives an image.
LEMMA WrittenType ==
    ASSUME program \in Image, NEW addr \in 0..(PAGES + 1), NEW V \in SUBSET (0..ERASED),
           NEW values \in Seq(V)
    PROVE  /\ Written(addr, values) \in Image
           /\ \A p \in 1..PAGES : Written(addr, values)[p] \in V \cup {program[p]}
  <1>1. ASSUME NEW p \in 1..PAGES, p \in addr..(addr + Len(values) - 1)
        PROVE  values[p - addr + 1] \in V
    <2>1. p - addr + 1 \in 1..Len(values)
      BY <1>1, StorageAssumption
    <2> QED BY <2>1
  <1>2. ASSUME NEW p \in 1..PAGES
        PROVE  Written(addr, values)[p] \in V \cup {program[p]}
    BY <1>1 DEF Written
  <1>3. ASSUME NEW p \in 1..PAGES
        PROVE  Written(addr, values)[p] \in 0..ERASED
    BY <1>2 DEF Image
  <1>4. Written(addr, values) = [p \in 1..PAGES |-> Written(addr, values)[p]]
    BY DEF Written
  <1> QED BY <1>2, <1>3, <1>4 DEF Image

------------------------------------------------------------------------------
(* What a frame may do *)

\* Every frame leaves flash alone and runs outside a commit; program memory
\* stays an image.
LEMMA FrameStep ==
    ASSUME ImageInv, HostInv, Frame
    PROVE  /\ step = 0 /\ step' = 0 /\ flash' = flash /\ saved' = saved
           /\ program' \in Image /\ HostInv'
  <1>0. CHECK \in 0..ERASED /\ VALUES \in SUBSET (0..ERASED) /\ program \in Image /\ PAGES \in Nat
    BY FxAssumption, StorageAssumption DEF ImageInv
  <1>1. CASE ReadOrReject
    BY <1>1, <1>0 DEF ReadOrReject, Receive, HostInv, host
  <1>2. ASSUME NEW addr \in 0..PAGES, NEW values \in Payloads, DeviceWrite(addr, values)
        PROVE  /\ step = 0 /\ step' = 0 /\ flash' = flash /\ saved' = saved
               /\ program' \in Image /\ HostInv'
    <2>1. Written(addr, values) \in Image
      BY <1>0, PayloadType, WrittenType
    <2> QED BY <1>2, <1>0, <2>1 DEF DeviceWrite, Receive, HostInv
  <1>3. ASSUME NEW addr \in 0..PAGES, NEW values \in Payloads, ExtendedWrite(addr, values)
        PROVE  /\ step = 0 /\ step' = 0 /\ flash' = flash /\ saved' = saved
               /\ program' \in Image /\ HostInv'
    <2>1. Written(addr, values) \in Image
      BY <1>0, PayloadType, WrittenType
    <2> QED BY <1>3, <1>0, <2>1 DEF ExtendedWrite, extended_write, Receive, HostInv
  <1>4. ASSUME NEW addr \in 0..PAGES, NEW values \in Payloads,
               NEW n \in 0..(Len(values) - 1), ExtendedWriteBad(addr, values, n)
        PROVE  /\ step = 0 /\ step' = 0 /\ flash' = flash /\ saved' = saved
               /\ program' \in Image /\ HostInv'
    <2>1. SubSeq(values, 1, n) \in Seq(VALUES)
      BY PayloadType
    <2>2. addr \in 0..(PAGES + 1)
      BY <1>0
    <2>3. Written(addr, SubSeq(values, 1, n)) \in Image
      BY <1>0, <2>1, <2>2, WrittenType
    <2> QED BY <1>4, <1>0, <2>3 DEF ExtendedWriteBad, Receive, HostInv
  <1>5. ASSUME NEW addr \in 1..PAGES, AnnounceRange(addr)
        PROVE  /\ step = 0 /\ step' = 0 /\ flash' = flash /\ saved' = saved
               /\ program' \in Image /\ HostInv'
    BY <1>5, <1>0 DEF AnnounceRange, Receive, HostInv
  <1>6. ASSUME NEW addr \in 0..(PAGES + 1) PROVE Written(addr, <<CHECK>>) \in Image
    <2>1. <<CHECK>> \in Seq(0..ERASED)
      BY <1>0
    <2> QED BY <2>1, <1>0, WrittenType
  <1>7. CASE SendCheck
    BY <1>7, <1>6, <1>0 DEF SendCheck, extended_write, Receive, HostInv
  <1>8. CASE RepeatCheck
    BY <1>8, <1>6, <1>0 DEF RepeatCheck, extended_write, Receive, HostInv
  <1>9. ASSUME NEW m \in {"RUN", "STOP"}, SetMode(m)
        PROVE  /\ step = 0 /\ step' = 0 /\ flash' = flash /\ saved' = saved
               /\ program' \in Image /\ HostInv'
    BY <1>9, <1>0 DEF SetMode, Receive, HostInv
  <1>10. ASSUME NEW c \in CREDENTIALS, ConsoleWifi(c)
         PROVE  /\ step = 0 /\ step' = 0 /\ flash' = flash /\ saved' = saved
                /\ program' \in Image /\ HostInv'
    BY <1>10, <1>0 DEF ConsoleWifi, plc_storage_wifi_set, Receive, HostInv, host
  <1> QED BY <1>1, <1>2, <1>3, <1>4, <1>5, <1>7, <1>8, <1>9, <1>10 DEF Frame

------------------------------------------------------------------------------
(* Commit *)

\* The last page of a commit: flash data is the program.
LEMMA LastPage ==
    ASSUME ImageInv, CommitInv, step = LAST_STEP, ProgramPage
    PROVE  flash'.data = program /\ flash'.header = header_page
  <1>1. step > HEADER /\ step - HEADER = PAGES /\ PAGES \in 1..PAGES
    BY StorageAssumption DEF LAST_STEP, HEADER
  <1>2. flash' = [flash EXCEPT !.data[PAGES] = program[PAGES]]
    BY <1>1 DEF ProgramPage
  <1>3. flash'.header = header_page /\ flash'.data = [flash.data EXCEPT ![PAGES] = program[PAGES]]
    BY <1>1, <1>2 DEF CommitInv, ImageInv
  <1>4. ASSUME NEW p \in 1..PAGES PROVE flash'.data[p] = program[p]
    <2>1. p = PAGES \/ p < PAGES
      BY StorageAssumption
    <2>2. flash.data \in [1..PAGES -> 0..ERASED]
      BY DEF ImageInv, Image
    <2>3. CASE p = PAGES
      BY <2>2, <2>3, <1>3
    <2>4. CASE p < PAGES
      <3>1. flash.data[p] = program[p]
        BY <2>4, <1>1 DEF CommitInv
      <3> QED BY <2>2, <2>4, <3>1, <1>3
    <2> QED BY <2>1, <2>3, <2>4
  <1>5. flash'.data \in [1..PAGES -> 0..ERASED] /\ program \in [1..PAGES -> 0..ERASED]
    BY <1>1, <1>3 DEF ImageInv, Image
  <1> QED BY <1>3, <1>4, <1>5

\* Every operation of commit() keeps the account of what it has done.
LEMMA CommitStep ==
    ASSUME FlashInv, Store
    PROVE  FlashInv' /\ program' = program
  <1>0. /\ step \in 0..LAST_STEP /\ PAGES \in Nat /\ program \in Image /\ flash.data \in Image
        /\ ErasedImage \in Image
    BY StorageAssumption, BootImages DEF FlashInv, ImageInv
  <1>1. CASE StartCommit
    BY <1>0, <1>1 DEF StartCommit, FlashInv, ImageInv, CommitInv, Durable, LAST_STEP, HEADER, ERASE_FIRST
  <1>2. CASE EraseSector
    <2>1. step' \in {2, 3} /\ program' = program
      BY <1>2 DEF EraseSector, ERASE_FIRST, ERASE_REST
    <2>2. [p \in 1..PAGES |-> IF p <= FIRST_SECTOR THEN ERASED ELSE flash.data[p]] \in Image
      BY <1>0, StorageAssumption DEF Image
    <2>3. flash'.data \in Image /\ flash' = [header |-> flash'.header, data |-> flash'.data]
      BY <1>0, <1>2, <2>2 DEF EraseSector, FlashInv, ImageInv
    <2> QED BY <2>1, <2>3, <1>0 DEF FlashInv, ImageInv, CommitInv, Durable, LAST_STEP, HEADER
  <1>3. CASE ProgramHeader
    <2>1. /\ step' = HEADER + 1 /\ program' = program /\ wifi' = wifi
          /\ flash' = [flash EXCEPT !.header = header_page]
      BY <1>3 DEF ProgramHeader
    <2>2. /\ flash' = [header |-> header_page, data |-> flash.data]
      BY <2>1 DEF FlashInv, ImageInv
    <2>3. header_page' = header_page
      BY <2>1 DEF header_page
    <2>4. ImageInv'
      <3>1. flash' = [header |-> flash'.header, data |-> flash'.data] /\ flash'.data \in Image
        BY <2>2, <1>0
      <3>2. step' \in 0..LAST_STEP
        BY <2>1, StorageAssumption DEF LAST_STEP, HEADER
      <3> QED BY <3>1, <3>2, <2>1, <1>0 DEF ImageInv
    <2>5. CommitInv'
      BY <2>1, <2>2, <2>3 DEF CommitInv, HEADER
    <2> QED BY <2>1, <2>4, <2>5 DEF FlashInv, Durable, HEADER
  <1>4. CASE ProgramPage
    <2>1. /\ step > HEADER /\ program' = program /\ wifi' = wifi
          /\ flash' = [flash EXCEPT !.data[step - HEADER] = program[step - HEADER]]
      BY <1>4 DEF ProgramPage
    <2>2. step - HEADER \in 1..PAGES
      BY <2>1, <1>0 DEF LAST_STEP, HEADER
    <2>3. /\ flash' = [header |-> flash.header,
                       data |-> [flash.data EXCEPT ![step - HEADER] = program[step - HEADER]]]
      BY <2>1 DEF FlashInv, ImageInv
    <2>4. flash'.data \in Image
      BY <2>2, <2>3, <1>0 DEF Image
    <2>5. header_page' = header_page
      BY <2>1 DEF header_page
    <2>6. CASE step = LAST_STEP
      <3>1. flash'.data = program /\ flash'.header = header_page
        BY <2>6, <1>4, LastPage DEF FlashInv
      <3>2. step' = 0 /\ saved' = [program |-> program, wifi |-> wifi]
        BY <2>6, <1>4 DEF ProgramPage, last_page, commit_done
      <3>3. plc_storage_load(flash)' = [program |-> program, wifi |-> wifi]
        BY <3>1 DEF plc_storage_load, header_page
      <3> QED BY <3>2, <3>3, <2>1, <2>3, <2>4, <1>0 DEF FlashInv, ImageInv, CommitInv, Durable, LAST_STEP, HEADER
    <2>7. CASE step # LAST_STEP
      <3>1. step' = step + 1
        BY <2>7, <1>4 DEF ProgramPage, last_page
      <3>2. step' \in 0..LAST_STEP /\ step' # 0
        BY <3>1, <2>7, <1>0, <2>1 DEF LAST_STEP, HEADER
      <3>3. ASSUME NEW p \in 1..PAGES, p < step' - HEADER
            PROVE  flash'.data[p] = program[p]
        <4>1. p = step - HEADER \/ p < step - HEADER
          BY <3>1, <3>3, <1>0 DEF HEADER
        <4>2. flash'.data = [flash.data EXCEPT ![step - HEADER] = program[step - HEADER]]
          BY <2>3
        <4>3. CASE p = step - HEADER
          BY <4>2, <4>3, <1>0, <3>3 DEF Image
        <4>4. CASE p < step - HEADER
          <5>1. flash.data[p] = program[p]
            BY <4>4, <2>1, <3>3 DEF FlashInv, CommitInv
          <5> QED BY <4>2, <4>4, <5>1, <1>0, <3>3, <2>2 DEF Image
        <4> QED BY <4>1, <4>3, <4>4
      <3>4. flash'.header = header_page
        BY <2>1, <2>3 DEF FlashInv, CommitInv
      <3>5. CommitInv'
        BY <3>3, <3>4, <2>1, <2>5 DEF CommitInv
      <3> QED BY <3>2, <3>5, <2>1, <2>3, <2>4, <1>0 DEF FlashInv, ImageInv, Durable
    <2> QED BY <2>1, <2>6, <2>7
  <1> QED BY <1>1, <1>2, <1>3, <1>4 DEF Store, Commit, StartCommit
------------------------------------------------------------------------------
(* Theorems *)

\* Every step of the specification keeps FlashInv.
LEMMA FlashInductive ==
    ASSUME FlashInv, HostInv, [Next]_vars
    PROVE  FlashInv' /\ HostInv'
  <1>0. ImageInv /\ Durable
    BY DEF FlashInv
  <1>1. CASE Frame
    <2>1. /\ step' = 0 /\ step = 0 /\ flash' = flash /\ saved' = saved
          /\ program' \in Image /\ HostInv'
      BY <1>0, <1>1, FrameStep
    <2> QED BY <2>1, <1>0 DEF FlashInv, ImageInv, CommitInv, Durable, HEADER, plc_storage_load
  <1>2. CASE Store
    BY <1>2, CommitStep DEF Store, host, HostInv
  <1>3. CASE Time
    BY <1>3 DEF Time, Tick, host, FlashInv, ImageInv, CommitInv, Durable, HostInv,
                header_page, plc_storage_load
  <1>4. CASE PowerCut
    <2>1. /\ step' = 0 /\ flash' = flash /\ program' = plc_storage_load(flash).program
          /\ wifi' = plc_storage_load(flash).wifi
          /\ saved' = IF step = 0 THEN saved ELSE [program |-> program', wifi |-> wifi']
          /\ announced' = 0 /\ sent_check' = 0
      BY <1>4 DEF PowerCut, Reboot
    <2>2. program' \in Image /\ step' \in 0..LAST_STEP
      BY <2>1, <1>0, BootImages, StorageAssumption DEF LAST_STEP, HEADER
    <2>3. ImageInv' /\ CommitInv' /\ HostInv'
      BY <2>1, <2>2, <1>0, StorageAssumption DEF ImageInv, CommitInv, HEADER, HostInv
    <2>4. plc_storage_load(flash)' = saved'
      <3>1. CASE step = 0
        BY <3>1, <2>1, <1>0 DEF Durable, plc_storage_load
      <3>2. CASE step # 0
        BY <3>2, <2>1 DEF plc_storage_load
      <3> QED BY <3>1, <3>2
    <2> QED BY <2>3, <2>4 DEF FlashInv, Durable
  <1>5. CASE UNCHANGED vars
    BY <1>5 DEF vars, storage, host, FlashInv, ImageInv, CommitInv, Durable, HostInv,
                header_page, plc_storage_load
  <1> QED BY <1>1, <1>2, <1>3, <1>4, <1>5 DEF Next

\* FlashInv holds from the first boot, with erased flash, on.
LEMMA FlashAlways == Spec => [](FlashInv /\ HostInv)
  <1>1. Init => FlashInv /\ HostInv
    BY BootImages, StorageAssumption
    DEF Init, StorageInit, FlashInv, ImageInv, CommitInv, Durable, HostInv, LAST_STEP, HEADER,
        plc_storage_load, NoHeader
  <1>2. FlashInv /\ HostInv /\ [Next]_vars => (FlashInv /\ HostInv)'
    BY FlashInductive
  <1> QED BY <1>1, <1>2, PTL DEF Spec

\* Unless power fails inside commit() of plc_storage.c, the program and the
\* credentials come back from flash as they were last saved, for every size
\* of program memory and every sequence of frames and power failures.
THEOREM SavedSurvives == Spec => []Durable
  <1>1. FlashInv => Durable
    BY DEF FlashInv
  <1> QED BY <1>1, FlashAlways, PTL

\* Once commit() has written the header page, the credentials in flash are the
\* current ones, whatever happens to the program pages after it.
THEOREM CredentialsIndependent == Spec => []WifiIndependent
  <1>1. FlashInv => WifiIndependent
    BY DEF FlashInv, CommitInv, WifiIndependent, plc_storage_load, header_page
  <1> QED BY <1>1, FlashAlways, PTL
------------------------------------------------------------------------------
(* Deferred commits *)

\* A host that writes the program with valid E11 frames at or above the start
\* of program memory, and not with command 1.
WellBehaved == "device_write" \notin FRAMES /\ "E11_bad" \notin FRAMES /\ "below" \notin FRAMES

\* A frame of such a host that changes program memory marks it dirty.
LEMMA FrameMarks ==
    ASSUME WellBehaved, HostInv, Frame
    PROVE  dirty' = TRUE \/ (program' = program /\ dirty' = dirty)
  <1>0. PAGES \in Nat
    BY StorageAssumption
  <1>1. CASE ReadOrReject
    BY <1>1 DEF ReadOrReject
  <1>2. ASSUME NEW addr \in 0..PAGES, NEW values \in Payloads, ExtendedWrite(addr, values)
        PROVE  dirty' = TRUE \/ (program' = program /\ dirty' = dirty)
    <2>1. addr >= 1
      BY <1>2, <1>0 DEF ExtendedWrite, WellBehaved
    <2> QED BY <1>2, <2>1 DEF ExtendedWrite, extended_write, mark_program, plc_storage_mark_dirty
  <1>3. CASE SendCheck
    BY <1>3, <1>0 DEF SendCheck, HostInv, extended_write, mark_program, plc_storage_mark_dirty
  <1>4. CASE RepeatCheck
    BY <1>4, <1>0 DEF RepeatCheck, HostInv, extended_write, mark_program, plc_storage_mark_dirty
  <1>5. ASSUME NEW addr \in 0..PAGES, NEW values \in Payloads,
               DeviceWrite(addr, values) \/ \E n \in 0..(Len(values) - 1) : ExtendedWriteBad(addr, values, n)
        PROVE  FALSE
    BY <1>5 DEF WellBehaved, DeviceWrite, ExtendedWriteBad, Receive
  <1>6. CASE \E addr \in 1..PAGES : AnnounceRange(addr)
    BY <1>6 DEF AnnounceRange
  <1>7. CASE \E m \in {"RUN", "STOP"} : SetMode(m)
    BY <1>7 DEF SetMode
  <1>8. CASE \E c \in CREDENTIALS : ConsoleWifi(c)
    BY <1>8 DEF ConsoleWifi, plc_storage_wifi_set, plc_storage_mark_dirty
  <1> QED BY <1>1, <1>2, <1>3, <1>4, <1>5, <1>6, <1>7, <1>8 DEF Frame

\* For such a host, handle_frame never leaves a changed program without a
\* commit due: what a boot would restore differs from the program in RAM only
\* while it is marked dirty.
THEOREM WritesAreSaved == WellBehaved => (Spec => []UnsavedIsDirty)
  <1> SUFFICES ASSUME WellBehaved PROVE Spec => []UnsavedIsDirty
    OBVIOUS
  <1>1. Init => UnsavedIsDirty
    BY DEF Init, StorageInit, UnsavedIsDirty, plc_storage_load, NoHeader
  <1>2. ASSUME UnsavedIsDirty, FlashInv, HostInv, (FlashInv /\ HostInv)', [Next]_vars
        PROVE  UnsavedIsDirty'
    <2>1. CASE Frame
      <3>1. flash' = flash /\ step = 0
        BY <2>1, <1>2, FrameStep DEF FlashInv
      <3> QED BY <3>1, <2>1, <1>2, FrameMarks DEF UnsavedIsDirty, plc_storage_load
    <2>2. CASE Store
      <3>1. CASE step' # 0
        BY <3>1 DEF UnsavedIsDirty
      <3>2. CASE step' = 0
        <4>0. step \in 0..LAST_STEP /\ LAST_STEP \in Nat
          BY <1>2, StorageAssumption DEF FlashInv, ImageInv, LAST_STEP, HEADER
        <4>1. program' = program /\ saved' = [program |-> program, wifi |-> wifi]
          BY <4>0, <2>2, <3>2 DEF Store, StartCommit, Commit, EraseSector, ProgramHeader, ProgramPage,
                            last_page, commit_done, ERASE_FIRST, ERASE_REST, HEADER
        <4>2. plc_storage_load(flash)' = saved'
          BY <1>2, <3>2 DEF FlashInv, Durable
        <4> QED BY <4>1, <4>2 DEF UnsavedIsDirty
      <3> QED BY <3>1, <3>2
    <2>3. CASE Time
      BY <2>3, <1>2 DEF Time, Tick, UnsavedIsDirty, plc_storage_load
    <2>4. CASE PowerCut
      BY <2>4 DEF PowerCut, Reboot, UnsavedIsDirty, plc_storage_load
    <2>5. CASE UNCHANGED vars
      BY <2>5, <1>2 DEF vars, storage, UnsavedIsDirty, plc_storage_load
    <2> QED BY <1>2, <2>1, <2>2, <2>3, <2>4, <2>5 DEF Next
  <1> QED BY <1>1, <1>2, FlashAlways, PTL DEF Spec

------------------------------------------------------------------------------
(* The transfer check *)

\* The device expects the check the host owes, and the check value is neither
\* in RAM nor in flash.
CheckInv ==
    /\ announced # 0 => program_check_pending /\ program_check_addr = announced
    /\ CheckNotStored
    /\ \A p \in 1..PAGES : flash.data[p] # CHECK

\* A write of host values brings no check value into program memory.
LEMMA WrittenNoCheck ==
    ASSUME CheckNotStored, program \in Image, NEW addr \in 0..PAGES, NEW values \in Seq(VALUES)
    PROVE  \A p \in 1..PAGES : Written(addr, values)[p] # CHECK
  <1>1. addr \in 0..(PAGES + 1) /\ VALUES \in SUBSET (0..ERASED) /\ CHECK \notin VALUES
    BY StorageAssumption, FxAssumption
  <1>2. ASSUME NEW p \in 1..PAGES PROVE Written(addr, values)[p] \in VALUES \cup {program[p]}
    BY <1>1, WrittenType
  <1> QED BY <1>1, <1>2 DEF CheckNotStored

\* No frame stores the check unless the host repeats it.
LEMMA CheckFrame ==
    ASSUME CheckInv, ImageInv, "repeat" \notin FRAMES, Frame
    PROVE  (announced # 0 => program_check_pending /\ program_check_addr = announced)'
           /\ CheckNotStored'
  <1>0. program \in Image /\ CheckNotStored
    BY DEF ImageInv, CheckInv
  <1>1. CASE ReadOrReject
    BY <1>1 DEF ReadOrReject, check, host, CheckInv, CheckNotStored
  <1>2. ASSUME NEW addr \in 0..PAGES, NEW values \in Payloads, DeviceWrite(addr, values)
        PROVE  announced' = 0 /\ CheckNotStored'
    BY <1>2, <1>0, PayloadType, WrittenNoCheck DEF DeviceWrite, CheckNotStored
  <1>3. ASSUME NEW addr \in 0..PAGES, NEW values \in Payloads, ExtendedWrite(addr, values)
        PROVE  announced' = 0 /\ CheckNotStored'
    BY <1>3, <1>0, PayloadType, WrittenNoCheck DEF ExtendedWrite, extended_write, CheckNotStored
  <1>4. ASSUME NEW addr \in 0..PAGES, NEW values \in Payloads,
               NEW n \in 0..(Len(values) - 1), ExtendedWriteBad(addr, values, n)
        PROVE  announced' = 0 /\ CheckNotStored'
    <2>1. SubSeq(values, 1, n) \in Seq(VALUES)
      BY PayloadType
    <2>2. \A p \in 1..PAGES : Written(addr, SubSeq(values, 1, n))[p] # CHECK
      BY <2>1, <1>0, WrittenNoCheck
    <2> QED BY <1>4, <1>0, <2>2 DEF ExtendedWriteBad, CheckNotStored
  <1>5. CASE \E addr \in 1..PAGES : AnnounceRange(addr)
    BY <1>5, <1>0 DEF AnnounceRange, CheckNotStored
  <1>6. CASE SendCheck
    <2>1. is_check(announced, Len(<<CHECK>>))
      BY <1>6 DEF SendCheck, is_check, CheckInv
    <2> QED BY <1>6, <2>1, <1>0 DEF SendCheck, extended_write, CheckNotStored
  <1>7. ~RepeatCheck
    BY DEF RepeatCheck, Receive
  <1>8. CASE \E m \in {"RUN", "STOP"} : SetMode(m)
    BY <1>8, <1>0 DEF SetMode, CheckNotStored
  <1>9. CASE \E c \in CREDENTIALS : ConsoleWifi(c)
    BY <1>9, <1>0 DEF ConsoleWifi, plc_storage_wifi_set, check, host, CheckInv, CheckNotStored
  <1> QED BY <1>1, <1>2, <1>3, <1>4, <1>5, <1>6, <1>7, <1>8, <1>9 DEF Frame

\* Unless the host repeats it, the transfer check that GX Works sends after
\* E41 never overwrites an instruction, whatever frames and power failures
\* come between.
THEOREM CheckIsDropped == "repeat" \notin FRAMES => (Spec => []CheckNotStored)
  <1> SUFFICES ASSUME "repeat" \notin FRAMES PROVE Spec => []CheckNotStored
    OBVIOUS
  <1>0. CHECK # 0 /\ CHECK # ERASED
    BY FxAssumption
  <1>1. Init => CheckInv
    BY <1>0 DEF Init, StorageInit, CheckInv, CheckNotStored, BlankImage, ErasedImage
  <1>2. ASSUME CheckInv, FlashInv, HostInv, [Next]_vars
        PROVE  CheckInv'
    <2>0. ImageInv
      BY <1>2 DEF FlashInv
    <2>1. CASE Frame
      <3>1. flash' = flash
        BY <2>1, <2>0, <1>2, FrameStep
      <3> QED BY <3>1, <2>1, <2>0, <1>2, CheckFrame DEF CheckInv
    <2>2. CASE Store
      <3>1. UNCHANGED <<program, program_check_pending, program_check_addr, announced>>
        BY <2>2 DEF Store, StartCommit, Commit, EraseSector, ProgramHeader, ProgramPage, check, host
      <3>2. \A p \in 1..PAGES : flash'.data[p] # CHECK
        <4>1. CASE StartCommit \/ ProgramHeader
          BY <4>1, <1>2, <2>0 DEF StartCommit, ProgramHeader, CheckInv, ImageInv
        <4>2. CASE EraseSector
          BY <4>2, <1>0, <1>2, <2>0 DEF EraseSector, ErasedImage, CheckInv, ImageInv
        <4>3. CASE ProgramPage
          <5>1. step - HEADER \in 1..PAGES
            BY <4>3, <2>0, StorageAssumption DEF ProgramPage, ImageInv, LAST_STEP, HEADER
          <5>2. flash'.data = [flash.data EXCEPT ![step - HEADER] = program[step - HEADER]]
            BY <4>3, <2>0 DEF ProgramPage, ImageInv
          <5>3. flash.data \in [1..PAGES -> 0..ERASED]
            BY <2>0 DEF ImageInv, Image
          <5> QED BY <5>1, <5>2, <5>3, <1>2 DEF CheckInv, CheckNotStored
        <4> QED BY <2>2, <4>1, <4>2, <4>3 DEF Store, Commit
      <3> QED BY <3>1, <3>2, <1>2 DEF CheckInv, CheckNotStored
    <2>3. CASE Time
      BY <2>3, <1>2 DEF Time, Tick, check, host, CheckInv, CheckNotStored
    <2>4. CASE PowerCut
      BY <2>4, <1>0, <1>2 DEF PowerCut, Reboot, plc_storage_load, BlankImage, CheckInv, CheckNotStored
    <2>5. CASE UNCHANGED vars
      BY <2>5, <1>2 DEF vars, storage, check, host, CheckInv, CheckNotStored
    <2> QED BY <1>2, <2>1, <2>2, <2>3, <2>4, <2>5 DEF Next
  <1>3. CheckInv => CheckNotStored
    BY DEF CheckInv
  <1> QED BY <1>1, <1>2, <1>3, FlashAlways, PTL DEF Spec
------------------------------------------------------------------------------
(* The checksum and a torn image *)

\* The running sum is the function its recursive definition describes: such a
\* function exists, one page at a time.
LEMMA SumsDef ==
    ASSUME NEW image
    PROVE  sums(image) = [n \in 0..PAGES |-> IF n = 0 THEN 0 ELSE sums(image)[n - 1] + image[n]]
  <1> DEFINE Eq(f, m) == f = [n \in 0..m |-> IF n = 0 THEN 0 ELSE f[n - 1] + image[n]]
  <1> DEFINE S == {m \in Nat : \E f : Eq(f, m)}
  <1>1. 0 \in S
    <2>1. Eq([n \in {0} |-> 0], 0)
      OBVIOUS
    <2> QED BY <2>1
  <1>2. ASSUME NEW m \in Nat, m \in S
        PROVE  m + 1 \in S
    <2>1. PICK f : Eq(f, m)
      BY <1>2
    <2> DEFINE g == [n \in 0..(m + 1) |-> IF n = m + 1 THEN f[m] + image[n] ELSE f[n]]
    <2>2. Eq(g, m + 1)
      <3>1. \A n \in 0..m : g[n] = f[n]
        OBVIOUS
      <3>2. ASSUME NEW n \in 0..(m + 1)
            PROVE  g[n] = IF n = 0 THEN 0 ELSE g[n - 1] + image[n]
        <4>1. CASE n = m + 1
          <5>1. m \in 0..m /\ (m + 1) - 1 = m /\ m + 1 # 0
            OBVIOUS
          <5> QED BY <4>1, <5>1, <3>1
        <4>2. CASE n # m + 1
          <5>1. n \in 0..m /\ (n # 0 => n - 1 \in 0..m)
            BY <4>2
          <5> HIDE DEF g
          <5>2. f[n] = IF n = 0 THEN 0 ELSE f[n - 1] + image[n]
            BY <2>1, <5>1
          <5> QED BY <3>1, <5>1, <5>2
        <4> QED BY <4>1, <4>2
      <3>3. g = [n \in 0..(m + 1) |-> g[n]]
        OBVIOUS
      <3> HIDE DEF g
      <3> QED BY <3>2, <3>3
    <2>3. \E h : Eq(h, m + 1)
      <3> HIDE DEF g, Eq
      <3> QED BY <2>2
    <2>4. m + 1 \in Nat
      OBVIOUS
    <2> HIDE DEF Eq
    <2> QED BY <2>3, <2>4
  <1>3. S = Nat
    <2> HIDE DEF S
    <2>1. S \in SUBSET Nat
      BY DEF S
    <2> QED BY <1>1, <1>2, <2>1, SetInduction
  <1>4. PAGES \in Nat
    BY StorageAssumption
  <1>5. \E f : Eq(f, PAGES)
    BY <1>3, <1>4
  <1>6. sums(image) = CHOOSE f : Eq(f, PAGES)
    BY DEF sums
  <1>7. Eq(sums(image), PAGES)
    BY <1>5, <1>6
  <1> QED BY <1>7

\* What an additive checksum can tell: of two images, one at least the other
\* on every page, the sums are ordered the same way, and they are equal only
\* if the images are.
LEMMA SumsOrdered ==
    ASSUME NEW f \in Image, NEW g \in Image, \A p \in 1..PAGES : f[p] >= g[p]
    PROVE  checksum_of(f) = checksum_of(g) => f = g
  <1> DEFINE F == sums(f)
             G == sums(g)
             S == {n \in Nat : n <= PAGES =>
                     /\ F[n] \in Nat /\ G[n] \in Nat /\ F[n] >= G[n]
                     /\ F[n] = G[n] => \A p \in 1..n : f[p] = g[p]}
  <1>0. /\ PAGES \in Nat
        /\ \A p \in 1..PAGES : f[p] \in Nat /\ g[p] \in Nat
    BY StorageAssumption DEF Image
  <1>1. /\ \A n \in 0..PAGES : F[n] = IF n = 0 THEN 0 ELSE F[n - 1] + f[n]
        /\ \A n \in 0..PAGES : G[n] = IF n = 0 THEN 0 ELSE G[n - 1] + g[n]
    <2>1. F = [n \in 0..PAGES |-> IF n = 0 THEN 0 ELSE F[n - 1] + f[n]]
      BY SumsDef
    <2>2. G = [n \in 0..PAGES |-> IF n = 0 THEN 0 ELSE G[n - 1] + g[n]]
      BY SumsDef
    <2> HIDE DEF F, G
    <2> QED BY <2>1, <2>2
  <1> HIDE DEF F, G
  <1>2. 0 \in S
    <2>1. F[0] = 0 /\ G[0] = 0
      BY <1>0, <1>1
    <2> QED BY <2>1
  <1>3. ASSUME NEW n \in Nat, n \in S
        PROVE  n + 1 \in S
    <2> SUFFICES ASSUME n + 1 <= PAGES
                 PROVE  /\ F[n + 1] \in Nat /\ G[n + 1] \in Nat /\ F[n + 1] >= G[n + 1]
                        /\ F[n + 1] = G[n + 1] => \A p \in 1..(n + 1) : f[p] = g[p]
      OBVIOUS
    <2>1. n + 1 \in 0..PAGES /\ n + 1 # 0 /\ (n + 1) - 1 = n /\ n + 1 \in 1..PAGES /\ n <= PAGES
      BY <1>0
    <2>2. F[n + 1] = F[n] + f[n + 1] /\ G[n + 1] = G[n] + g[n + 1]
      BY <2>1, <1>1
    <2>3. f[n + 1] \in Nat /\ g[n + 1] \in Nat /\ f[n + 1] >= g[n + 1]
      BY <2>1, <1>0
    <2>4. /\ F[n] \in Nat /\ G[n] \in Nat /\ F[n] >= G[n]
          /\ F[n] = G[n] => \A p \in 1..n : f[p] = g[p]
      BY <1>3, <2>1
    <2>5. F[n + 1] = G[n + 1] => F[n] = G[n] /\ f[n + 1] = g[n + 1]
      BY <2>2, <2>3, <2>4
    <2>6. \A p \in 1..(n + 1) : p \in 1..n \/ p = n + 1
      OBVIOUS
    <2> QED BY <2>2, <2>3, <2>4, <2>5, <2>6
  <1>4. S = Nat
    <2> HIDE DEF S
    <2>1. S \in SUBSET Nat
      BY DEF S
    <2> QED BY <1>2, <1>3, <2>1, SetInduction
  <1>5. F[PAGES] = G[PAGES] => \A p \in 1..PAGES : f[p] = g[p]
    BY <1>0, <1>4
  <1>6. (\A p \in 1..PAGES : f[p] = g[p]) => f = g
    <2>1. f \in [1..PAGES -> 0..ERASED] /\ g \in [1..PAGES -> 0..ERASED]
      BY DEF Image
    <2> SUFFICES ASSUME \A p \in 1..PAGES : f[p] = g[p] PROVE f = g
      OBVIOUS
    <2>2. f = [p \in 1..PAGES |-> f[p]] /\ g = [p \in 1..PAGES |-> g[p]]
      BY <2>1
    <2>3. [p \in 1..PAGES |-> f[p]] = [p \in 1..PAGES |-> g[p]]
      OBVIOUS
    <2> QED BY <2>2, <2>3, Zenon
  <1> QED BY <1>5, <1>6 DEF F, G, checksum_of

\* The part of a commit that is still to come: until the first sector goes,
\* the old image is whole; then there is no header; and the pages not yet
\* written are erased.
TornInv ==
    /\ step = ERASE_FIRST => plc_storage_load(flash) = saved
    /\ step \in {ERASE_REST, HEADER} => flash.header = NoHeader
    /\ step >= HEADER => \A p \in 1..PAGES : p >= step - HEADER => flash.data[p] = ERASED

\* Every operation of commit() keeps it.
LEMMA TornStep ==
    ASSUME FlashInv, TornInv, Store
    PROVE  TornInv'
  <1>0. /\ step \in 0..LAST_STEP /\ PAGES \in Nat /\ flash.data \in [1..PAGES -> 0..ERASED]
        /\ flash = [header |-> flash.header, data |-> flash.data]
    BY StorageAssumption DEF FlashInv, ImageInv, Image
  <1>1. CASE StartCommit
    BY <1>1 DEF StartCommit, TornInv, FlashInv, Durable, plc_storage_load,
                ERASE_FIRST, ERASE_REST, HEADER
  <1>2. CASE EraseSector
    <2>1. CASE step = ERASE_FIRST
      BY <1>0, <1>2, <2>1 DEF EraseSector, TornInv, ERASE_FIRST, ERASE_REST, HEADER
    <2>2. CASE step = ERASE_REST
      <3>1. flash' = [header |-> flash.header, data |-> ErasedImage] /\ step' = HEADER
        BY <1>0, <1>2, <2>2 DEF EraseSector, ERASE_FIRST, ERASE_REST, HEADER
      <3>2. flash'.header = NoHeader /\ \A p \in 1..PAGES : flash'.data[p] = ERASED
        BY <3>1, <2>2 DEF TornInv, ErasedImage
      <3> QED BY <3>1, <3>2 DEF TornInv, ERASE_FIRST, ERASE_REST, HEADER
    <2> QED BY <1>2, <2>1, <2>2 DEF EraseSector
  <1>3. CASE ProgramHeader
    <2>1. step = HEADER /\ step' = HEADER + 1 /\ flash'.data = flash.data
      BY <1>0, <1>3 DEF ProgramHeader
    <2> QED BY <2>1 DEF TornInv, ERASE_FIRST, ERASE_REST, HEADER
  <1>4. CASE ProgramPage
    <2>1. step > HEADER /\ (step' = 0 \/ step' = step + 1)
      BY <1>4 DEF ProgramPage, last_page, commit_done
    <2>2. flash'.data = [flash.data EXCEPT ![step - HEADER] = program[step - HEADER]]
      BY <1>0, <1>4 DEF ProgramPage
    <2>3. CASE step' = 0
      BY <2>3 DEF TornInv, ERASE_FIRST, ERASE_REST, HEADER
    <2>4. CASE step' = step + 1
      <3>1. ASSUME NEW p \in 1..PAGES, p >= step' - HEADER
            PROVE  flash'.data[p] = ERASED
        <4>1. p # step - HEADER /\ p >= step - HEADER /\ step >= HEADER
          BY <1>0, <2>1, <2>4, <3>1 DEF HEADER
        <4>2. flash.data[p] = ERASED
          BY <4>1 DEF TornInv
        <4> QED BY <1>0, <2>2, <4>1, <4>2
      <3>2. step' # ERASE_FIRST /\ step' \notin {ERASE_REST, HEADER}
        BY <1>0, <2>1, <2>4 DEF ERASE_FIRST, ERASE_REST, HEADER
      <3> QED BY <3>1, <3>2 DEF TornInv
    <2> QED BY <2>1, <2>3, <2>4
  <1> QED BY <1>1, <1>2, <1>3, <1>4 DEF Store, Commit

\* What a boot makes of each state a commit can be interrupted in.
LEMMA TornDecides ==
    ASSUME FlashInv, TornInv
    PROVE  NeverTorn
  <1>0. /\ step \in 0..LAST_STEP /\ PAGES \in Nat /\ flash.data \in Image /\ program \in Image
    BY StorageAssumption DEF FlashInv, ImageInv
  <1>1. CASE step = 0
    BY <1>1 DEF FlashInv, Durable, NeverTorn
  <1>2. CASE step = ERASE_FIRST
    BY <1>2 DEF TornInv, NeverTorn
  <1>3. CASE step \in {ERASE_REST, HEADER}
    BY <1>3 DEF TornInv, NeverTorn, plc_storage_load, NoHeader
  <1>4. CASE step > HEADER
    <2>1. flash.header = header_page
      BY <1>4 DEF FlashInv, CommitInv
    <2>2. ASSUME NEW p \in 1..PAGES
          PROVE  flash.data[p] >= program[p]
      <3>1. program[p] \in 0..ERASED /\ ERASED \in Nat
        BY <1>0, StorageAssumption DEF Image
      <3>2. p < step - HEADER \/ p >= step - HEADER
        BY <1>0 DEF HEADER
      <3>3. CASE p < step - HEADER
        BY <3>1, <3>3, <1>4 DEF FlashInv, CommitInv
      <3>4. CASE p >= step - HEADER
        <4>1. step >= HEADER
          BY <1>0, <1>4 DEF HEADER
        <4>2. flash.data[p] = ERASED
          BY <3>4, <4>1 DEF TornInv
        <4> QED BY <3>1, <4>2
      <3> QED BY <3>2, <3>3, <3>4
    <2>3. checksum_of(flash.data) = checksum_of(program) => flash.data = program
      BY <1>0, <2>2, SumsOrdered
    <2>4. flash.header.checksum = checksum_of(program)
      BY <2>1 DEF header_page
    <2>5. plc_storage_load(flash).program \in {BlankImage, program}
      BY <2>3, <2>4 DEF plc_storage_load
    <2>6. step # 0
      BY <1>4, <1>0 DEF HEADER
    <2> QED BY <2>5, <2>6 DEF NeverTorn
  <1>5. step = 0 \/ step = ERASE_FIRST \/ step \in {ERASE_REST, HEADER} \/ step > HEADER
    BY <1>0 DEF ERASE_FIRST, ERASE_REST, HEADER
  <1> QED BY <1>1, <1>2, <1>3, <1>4, <1>5

\* Wherever in commit() the power fails, the boot finds the blank program, the
\* last one saved or the one being saved, never a mixture: for every image, the
\* sum of commit() tells a partly programmed one apart, because erased flash is
\* the largest value a page can have.
THEOREM ImageNeverTorn == Spec => []NeverTorn
  <1>1. Init => TornInv
    BY DEF Init, StorageInit, TornInv, ERASE_FIRST, ERASE_REST, HEADER
  <1>2. ASSUME TornInv, FlashInv, HostInv, [Next]_vars
        PROVE  TornInv'
    <2>1. CASE Frame
      <3>1. step' = 0
        BY <2>1, <1>2, FrameStep DEF FlashInv
      <3> QED BY <3>1 DEF TornInv, ERASE_FIRST, ERASE_REST, HEADER
    <2>2. CASE Store
      BY <2>2, <1>2, TornStep
    <2>3. CASE Time \/ PowerCut
      <3>1. step' = 0
        BY <2>3 DEF Time, Tick, PowerCut, Reboot
      <3> QED BY <3>1 DEF TornInv, ERASE_FIRST, ERASE_REST, HEADER
    <2>4. CASE UNCHANGED vars
      BY <2>4, <1>2 DEF vars, storage, TornInv, plc_storage_load
    <2> QED BY <1>2, <2>1, <2>2, <2>3, <2>4 DEF Next
  <1>3. FlashInv /\ TornInv => NeverTorn
    BY TornDecides
  <1> QED BY <1>1, <1>2, <1>3, FlashAlways, PTL DEF Spec

==============================================================================
