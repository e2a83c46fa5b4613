-------------------------- MODULE WriteBackProofs --------------------------
(***************************************************************************)
(* What WriteBack promises while no request has been given up, for every   *)
(* set of programs and of blocks and every width of the ring's indices.    *)
(***************************************************************************)
EXTENDS WriteBack, TLAPS

\* Only the types that the argument uses.
Types ==
    /\ image \in Nat /\ disk \in [Blocks -> Nat] /\ mine \in [Programs -> Nat]
    /\ pc \in [Programs -> {"user", "sleeping", "polling"}]
    /\ result \in [Programs -> {"none", "ok", "EIO", "EBUSY"}]
    /\ completed \in 0 .. INDICES - 1 /\ avail \in 0 .. INDICES - 1
    /\ used \in 0 .. INDICES - 1 /\ seen \in 0 .. INDICES - 1
    /\ copying \subseteq Blocks /\ timeouts \in Nat
    /\ status \in {OK, IOERR, UNSENT}

\* What is written comes from the image.
Bounded == (\A p \in Programs : mine[p] <= image) /\ (\A b \in Blocks : disk[b] <= image)

\* Whoever waits holds the claim, alone.
OneWaits ==
    /\ \A p \in Programs : pc[p] # "user" => in_use
    /\ in_use => \E p \in Programs : \A q \in Programs : pc[q] # "user" <=> q = p

\* Between two requests: none was made, or the last one came back, with success (the
\* indices are equal) or with an error (the driver stays one behind).
Quiet ==
    /\ copying = {} /\ avail = seen /\ used = seen
    /\ seen = completed \/ seen = next_index(completed)

\* The request is published; it is being copied; it was answered.
Sent == seen = completed /\ used = completed /\ copying = {} /\ status = UNSENT
Underway ==
    /\ seen = avail /\ used = completed /\ copying # {} /\ status = UNSENT
    /\ \A p \in Programs, b \in Blocks \ copying : pc[p] # "user" => disk[b] >= mine[p]
Answered ==
    /\ seen = avail /\ used = avail /\ copying = {}
    /\ status = OK => \A p \in Programs, b \in Blocks : pc[p] # "user" => disk[b] >= mine[p]

Saved == \A p \in Programs, b \in Blocks : result[p] = "ok" => disk[b] >= mine[p]

Phase ==
    /\ ~in_use => Quiet
    /\ in_use => avail = next_index(completed) /\ (Sent \/ Underway \/ Answered)

IInv == Types /\ Bounded /\ (timeouts = 0 => OneWaits /\ Phase /\ Saved)

----------------------------------------------------------------------------
\* The next index is an index, and another one (wrapping_add of a width of more than one).
LEMMA NextIndex ==
    ASSUME NEW i \in 0 .. INDICES - 1
    PROVE  next_index(i) \in 0 .. INDICES - 1 /\ next_index(i) # i
BY WriteBackAssumption DEF next_index

LEMMA Initially == Init => IInv
BY WriteBackAssumption
   DEF Init, IInv, Types, Bounded, OneWaits, Phase, Quiet, Saved, OK, IOERR, UNSENT

\* Types and bounds need no argument about phases.
LEMMA TypesPreserved == Types /\ Bounded /\ [Next]_vars => Types' /\ Bounded'
<1> SUFFICES ASSUME Types, Bounded, [Next]_vars PROVE Types' /\ Bounded'
  BY Zenon
<1> USE DEF Types, Bounded, OK, IOERR, UNSENT
<1>0. next_index(completed) \in 0 .. INDICES - 1 /\ next_index(used) \in 0 .. INDICES - 1
  BY NextIndex, Zenon
<1>1. ASSUME NEW p \in Programs, Write(p) PROVE Types' /\ Bounded'
  BY <1>1 DEF Write, shared, device
<1>2. ASSUME NEW p \in Programs, Close(p) PROVE Types' /\ Bounded'
  BY <1>0, <1>2 DEF Close, Issue, published_index, shared, device
<1>3. ASSUME NEW p \in Programs, StopSleeping(p) PROVE Types' /\ Bounded'
  BY <1>3 DEF StopSleeping, shared, device
<1>4. ASSUME NEW p \in Programs, Poll(p) PROVE Types' /\ Bounded'
  BY <1>0, <1>4 DEF Poll, Finish, shared, device
<1>5. ASSUME NEW p \in Programs, PollTimesOut(p) PROVE Types' /\ Bounded'
  BY <1>5 DEF PollTimesOut, Finish, shared, device
<1>6. CASE Interrupt
  BY <1>6 DEF Interrupt, device
<1>7. CASE TakeRequest
  BY <1>7 DEF TakeRequest, shared
<1>8. ASSUME NEW b \in Blocks, CopyBlock(b) PROVE Types' /\ Bounded'
  BY <1>0, <1>8 DEF CopyBlock, Answer, shared
<1>9. CASE FailRequest
  BY <1>0, <1>9 DEF FailRequest, Answer
<1>10. CASE UNCHANGED vars
  BY <1>10 DEF vars, shared, device
<1> QED
  BY <1>1, <1>2, <1>3, <1>4, <1>5, <1>6, <1>7, <1>8, <1>9, <1>10
     DEF Next, Waits, WokenByInterrupt, DeadlinePasses, DeviceStep

\* A step that gives up no request keeps the phases.
LEMMA PhasesPreserved ==
    IInv /\ [Next]_vars /\ timeouts' = 0 => OneWaits' /\ Phase' /\ Saved'
<1> SUFFICES ASSUME IInv, [Next]_vars, timeouts' = 0 PROVE OneWaits' /\ Phase' /\ Saved'
  BY Zenon
<1>t. Types /\ Bounded /\ Types' /\ Bounded'
  BY TypesPreserved, Zenon DEF IInv
<1>0. next_index(completed) \in 0 .. INDICES - 1 /\ next_index(completed) # completed
  BY NextIndex, <1>t, Zenon DEF Types
<1>h. ASSUME timeouts = 0 PROVE OneWaits /\ Phase /\ Saved
  BY <1>h, Zenon DEF IInv
<1>1. ASSUME NEW p \in Programs, Write(p) PROVE OneWaits' /\ Phase' /\ Saved'
  <2>1. timeouts = 0 /\ pc' = pc /\ in_use' = in_use /\ disk' = disk
    BY <1>1, Zenon DEF Write, device
  <2>2. OneWaits'
    BY <1>h, <2>1, Zenon DEF OneWaits
  <2>3. \A q \in Programs : pc[q] # "user" => mine'[q] = mine[q]
    BY <1>1, <1>t, Zenon DEF Write, Types
  <2>4. Phase'
    BY <1>h, <1>1, <2>1, <2>3 DEF Write, Phase, Quiet, Sent, Underway, Answered, shared, device, next_index
  <2>5. Saved'
    BY <1>h, <1>1, <1>t, <2>1, Zenon DEF Write, Saved, Types
  <2> QED
    BY <2>2, <2>4, <2>5, Zenon
<1>2. ASSUME NEW p \in Programs, Close(p) PROVE OneWaits' /\ Phase' /\ Saved'
  <2>0. timeouts = 0 /\ OneWaits /\ Phase /\ Saved /\ pc[p] = "user"
    BY <1>h, <1>2, Zenon DEF Close
  <2>1. CASE in_use
    <3>1. UNCHANGED <<in_use, woken, shared, pc, completed, device, mine>>
          /\ result' = [result EXCEPT ![p] = "EBUSY"]
      BY <1>2, <2>1, Zenon DEF Close, Claimable
    <3>2. OneWaits' /\ Phase'
      BY <2>0, <3>1, Zenon DEF OneWaits, Phase, Quiet, Sent, Underway, Answered, shared, device, next_index
    <3>3. Saved'
      BY <2>0, <3>1, <1>t, Zenon DEF Saved, Types, device
    <3> QED
      BY <3>2, <3>3, Zenon
  <2>2. CASE ~in_use
    <3>1. /\ in_use' = TRUE /\ avail' = next_index(completed) /\ status' = UNSENT
          /\ used' = used /\ UNCHANGED <<completed, device, mine>>
          /\ pc' = [pc EXCEPT ![p] = "sleeping"] /\ result' = [result EXCEPT ![p] = "none"]
      BY <1>2, <2>2, Zenon DEF Close, Claimable, Issue, published_index
    <3>2. \A q \in Programs : pc[q] = "user"
      BY <2>0, <2>2, Zenon DEF OneWaits
    <3>3. OneWaits'
      BY <3>1, <3>2, <1>t DEF OneWaits, Types
    <3>4. Phase'
      <4>1. Quiet
        BY <2>0, <2>2, Zenon DEF Phase
      <4>2. CASE seen = completed
        BY <3>1, <4>1, <4>2, Zenon DEF Phase, Sent, Quiet, device, next_index
      <4>3. CASE seen = next_index(completed)
        BY <3>1, <4>1, <4>3 DEF Phase, Answered, Quiet, device, next_index, UNSENT, OK
      <4> QED
        BY <4>1, <4>2, <4>3, Zenon DEF Quiet
    <3>5. Saved'
      BY <2>0, <3>1, <1>t, Zenon DEF Saved, Types, device
    <3> QED
      BY <3>3, <3>4, <3>5, Zenon
  <2> QED
    BY <2>1, <2>2, Zenon
<1>3. ASSUME NEW p \in Programs, StopSleeping(p) PROVE OneWaits' /\ Phase' /\ Saved'
  <2>1. timeouts = 0 /\ OneWaits /\ Phase /\ Saved
    BY <1>h, <1>3, Zenon DEF StopSleeping
  <2>2. \A q \in Programs : pc'[q] # "user" <=> pc[q] # "user"
    BY <1>3, <1>t, Zenon DEF StopSleeping, Types
  <2>3. OneWaits'
    BY <2>1, <2>2, <1>3, Zenon DEF StopSleeping, OneWaits
  <2>4. Phase' /\ Saved'
    BY <2>1, <2>2, <1>3, Zenon
       DEF StopSleeping, Phase, Quiet, Sent, Underway, Answered, Saved, shared, device, next_index
  <2> QED
    BY <2>3, <2>4, Zenon
<1>4. ASSUME NEW p \in Programs, Poll(p) PROVE OneWaits' /\ Phase' /\ Saved'
  <2>0. /\ timeouts = 0 /\ OneWaits /\ Phase /\ Saved /\ pc[p] = "polling"
        /\ used = next_index(completed)
    BY <1>h, <1>4, Zenon DEF Poll, request_is_used
  <2>1. in_use /\ (\A q \in Programs : pc[q] # "user" => q = p)
    BY <2>0, Zenon DEF OneWaits
  <2>2. /\ in_use' = FALSE /\ pc' = [pc EXCEPT ![p] = "user"]
        /\ UNCHANGED <<shared, device, mine>>
    BY <1>4, Zenon DEF Poll, Finish
  <2>3. Answered /\ avail = next_index(completed)
    BY <2>0, <2>1, <1>0, Zenon DEF Phase, Sent, Underway
  <2>4. OneWaits'
    BY <2>1, <2>2, <1>t DEF OneWaits, Types
  <2>5. Phase'
    BY <1>4, <2>2, <2>3, Zenon DEF Poll, Phase, Quiet, Answered, shared, device, next_index
  <2>6. Saved'
    <3>1. CASE status = OK
      BY <3>1, <1>4, <2>0, <2>2, <2>3, <1>t
         DEF Poll, Finish, status_is_ok, Saved, Answered, Types, device
    <3>2. CASE status # OK
      BY <3>2, <1>4, <2>0, <2>2, <1>t DEF Poll, Finish, status_is_ok, Saved, Types, device
    <3> QED
      BY <3>1, <3>2, Zenon
  <2> QED
    BY <2>4, <2>5, <2>6, Zenon
<1>5. ASSUME NEW p \in Programs, PollTimesOut(p) PROVE OneWaits' /\ Phase' /\ Saved'
  BY <1>5, <1>t DEF PollTimesOut, Types
<1>6. CASE Interrupt
  BY <1>h, <1>6, Zenon
     DEF Interrupt, OneWaits, Phase, Quiet, Sent, Underway, Answered, Saved, device, next_index
<1>7. CASE TakeRequest
  <2>1. timeouts = 0 /\ OneWaits /\ Phase /\ Saved
    BY <1>h, <1>7, Zenon DEF TakeRequest
  <2>2. in_use /\ Sent
    BY <2>1, <1>7, Zenon DEF TakeRequest, Phase, Quiet, Underway, Answered
  <2>3. Phase'
    BY <2>1, <2>2, <1>7, WriteBackAssumption, Zenon
       DEF TakeRequest, Phase, Sent, Underway, shared, next_index
  <2> QED
    BY <2>1, <2>3, <1>7, Zenon DEF TakeRequest, OneWaits, Saved
<1>8. ASSUME NEW b \in Blocks, CopyBlock(b) PROVE OneWaits' /\ Phase' /\ Saved'
  <2>1. timeouts = 0 /\ OneWaits /\ Phase /\ Saved
    BY <1>h, <1>8, Zenon DEF CopyBlock
  <2>2. in_use /\ Underway /\ avail = next_index(completed)
    BY <2>1, <1>8, Zenon DEF CopyBlock, Phase, Quiet, Sent, Answered
  <2>3. \A c \in Blocks : disk'[c] = IF c = b THEN image ELSE disk[c]
    BY <1>8, <1>t, Zenon DEF CopyBlock, Types
  <2>4. \A p \in Programs : mine[p] <= image /\ mine[p] \in Nat
    BY <1>t, Zenon DEF Bounded, Types
  <2>5. \A p \in Programs, c \in Blocks \ copying' : pc[p] # "user" => disk'[c] >= mine[p]
    BY <1>8, <1>t, <2>2, <2>3, <2>4, Zenon DEF CopyBlock, Underway, Types
  <2>6. Phase'
    <3>1. CASE copying' = {}
      <4>1. used' = avail /\ seen' = avail /\ avail' = avail
        BY <3>1, <1>8, <2>2, Zenon DEF CopyBlock, Answer, Underway
      <4> QED
        BY <3>1, <4>1, <1>8, <2>2, <2>5, Zenon DEF CopyBlock, Phase, Answered, next_index
    <3>2. CASE copying' # {}
      BY <3>2, <1>8, <2>2, <2>5, Zenon DEF CopyBlock, Phase, Underway, shared, next_index
    <3> QED
      BY <3>1, <3>2, Zenon
  <2>7. Saved'
    BY <1>8, <1>t, <2>1, <2>3, <2>4, Zenon DEF CopyBlock, Saved, Types
  <2>8. OneWaits'
    BY <1>8, <2>1, Zenon DEF CopyBlock, OneWaits
  <2> QED
    BY <2>6, <2>7, <2>8, Zenon
<1>9. CASE FailRequest
  <2>1. timeouts = 0 /\ OneWaits /\ Phase /\ Saved
    BY <1>h, <1>9, Zenon DEF FailRequest
  <2>2. in_use /\ Underway /\ avail = next_index(completed)
    BY <2>1, <1>9, Zenon DEF FailRequest, Busy, Phase, Quiet, Sent, Answered
  <2>3. Phase'
    BY <1>9, <2>2 DEF FailRequest, Answer, Underway, Phase, Answered, next_index, OK, IOERR
  <2> QED
    BY <2>1, <2>3, <1>9, Zenon DEF FailRequest, OneWaits, Saved
<1>10. CASE UNCHANGED vars
  BY <1>h, <1>10, Zenon
     DEF vars, OneWaits, Phase, Quiet, Sent, Underway, Answered, Saved, shared, device, next_index
<1> QED
  BY <1>1, <1>2, <1>3, <1>4, <1>5, <1>6, <1>7, <1>8, <1>9, <1>10, Zenon
     DEF Next, Waits, WokenByInterrupt, DeadlinePasses, DeviceStep

LEMMA Inductive == Spec => []IInv
<1>1. IInv /\ [Next]_vars => IInv'
  BY TypesPreserved, PhasesPreserved, Zenon DEF IInv
<1> QED
  BY Initially, <1>1, PTL DEF Spec

\* A close that returned 0 has put everything its program wrote on the disk, for any
\* programs and blocks, as long as wait_for_used gave no request up (flush_root_image).
THEOREM ClosedIsSaved == Spec => []SavedIsOnDisk
<1>1. IInv => SavedIsOnDisk
  BY Zenon DEF IInv, Saved, SavedIsOnDisk
<1> QED
  BY Inductive, <1>1, PTL

\* While the device has a request, exactly one program waits, with the claim, for that
\* request and no other, as long as none was given up (claim, issue_at, wait_for_used).
THEOREM OneRequestAtATime == Spec => []DeviceWorksForTheClaim
<1>1. IInv => DeviceWorksForTheClaim
  <2> SUFFICES ASSUME IInv, timeouts = 0, Pending
               PROVE  /\ in_use /\ avail = next_index(completed) /\ used = completed
                      /\ \E p \in Programs : \A q \in Programs : pc[q] # "user" <=> q = p
    BY Zenon DEF DeviceWorksForTheClaim
  <2>1. OneWaits /\ Phase
    BY Zenon DEF IInv
  <2>2. in_use /\ (Sent \/ Underway) /\ avail = next_index(completed)
    BY <2>1, Zenon DEF Phase, Quiet, Answered, Pending, Busy
  <2> QED
    BY <2>1, <2>2, Zenon DEF OneWaits, Sent, Underway
<1> QED
  BY Inductive, <1>1, PTL
=============================================================================
