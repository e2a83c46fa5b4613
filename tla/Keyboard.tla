------------------------------ MODULE Keyboard ------------------------------
(***************************************************************************)
(* From scancodes to bytes: the ring the interrupt handler fills           *)
(* (keyboard/buffer.rs), the decoder its readers feed (keyboard/decode.rs) *)
(* with the bytes it left over (input.rs), and the handler's own look-out  *)
(* for Ctrl+C, which sees every code at once and keeps its state apart.    *)
(*                                                                         *)
(* A scancode is a name: a make "ctrl+", "c+", a break "ctrl-", a prefix   *)
(* "E0", "E1".  Keys that act like these (letters, other arrows, breaks    *)
(* that mean nothing) are left out, and so are the modifiers that only     *)
(* choose between characters.                                              *)
(***************************************************************************)
EXTENDS Integers, Sequences, FiniteSetsExt

CONSTANTS
    CAPACITY,               \* codes the ring holds
    PAUSE_TRAILING_BYTES    \* codes that follow "E1"

ASSUME KeyboardAssumption == CAPACITY \in Nat \ {0} /\ PAUSE_TRAILING_BYTES \in Nat \ {0}

IsCtrl(code) == code \in {"ctrl+", "ctrl-"}

\* ScancodeRing::push: a full ring drops the new code.
push(ring, code) == IF Len(ring) = CAPACITY THEN ring ELSE Append(ring, code)

----------------------------------------------------------------------------
(* The decoder *)

Released == [ctrl |-> FALSE, sequence |-> "Idle", remaining |-> 0]

\* Decoder::feed, what becomes of the decoder.
Fed(dec, code) ==
    CASE dec.sequence = "Pause" ->
            IF dec.remaining = 1 THEN [dec EXCEPT !.sequence = "Idle", !.remaining = 0]
            ELSE [dec EXCEPT !.remaining = @ - 1]
      [] dec.sequence # "Pause" /\ IsCtrl(code) ->
            [dec EXCEPT !.sequence = "Idle", !.ctrl = (code = "ctrl+")]
      [] dec.sequence = "Extended" /\ ~IsCtrl(code) -> [dec EXCEPT !.sequence = "Idle"]
      [] dec.sequence = "Idle" /\ ~IsCtrl(code) ->
            CASE code = "E0" -> [dec EXCEPT !.sequence = "Extended"]
              [] code = "E1" ->
                    [dec EXCEPT !.sequence = "Pause", !.remaining = PAUSE_TRAILING_BYTES]
              [] OTHER -> dec

\* The decoder after all of the codes.
FedAll(dec, codes) ==
    LET after[i \in 0 .. Len(codes)] == IF i = 0 THEN dec ELSE Fed(after[i - 1], codes[i])
    IN  after[Len(codes)]

\* The event it reports, as the bytes bytes_for_event makes of it.
EventBytes(dec, code) ==
    CASE dec.sequence = "Idle" /\ code = "c+" -> IF dec.ctrl THEN <<"^C">> ELSE <<"c">>
      [] dec.sequence = "Extended" /\ code = "left+" -> <<"esc", "[", "D">>
      [] OTHER -> <<>>

\* One code of read_bytes' loop for n bytes: what does not fit is left in PENDING.
Decode(n, acc, code) ==
    IF Len(acc.out) = n THEN acc
    ELSE LET bytes == acc.out \o EventBytes(acc.dec, code)
             fits == Min({n, Len(bytes)})
         IN  [dec |-> Fed(acc.dec, code), out |-> SubSeq(bytes, 1, fits),
              pending |-> acc.pending \o SubSeq(bytes, fits + 1, Len(bytes)),
              consumed |-> acc.consumed + 1]

\* read_bytes: first what is pending, then as many codes as it takes.
read_bytes(n, ring, dec, pending) ==
    LET first == Min({n, Len(pending)})
        start == [dec |-> dec, out |-> SubSeq(pending, 1, first),
                  pending |-> SubSeq(pending, first + 1, Len(pending)), consumed |-> 0]
        turn[i \in 0 .. Len(ring)] == IF i = 0 THEN start ELSE Decode(n, turn[i - 1], ring[i])
    IN  turn[Len(ring)]

----------------------------------------------------------------------------
(* The look-out for Ctrl+C *)

Untracked == [ctrl |-> FALSE, pause |-> 0]

\* Mutant: the codes of Pause are taken for keys.
PauseNotSwallowed(trk, code) == IF IsCtrl(code) THEN [trk EXCEPT !.ctrl = (code = "ctrl+")] ELSE trk

\* note_scancode_for_interrupt, its state.  The prefix "E0" changes nothing.
Tracked(trk, code) ==
    IF trk.pause > 0 THEN [trk EXCEPT !.pause = @ - 1]
    ELSE IF code = "E1" THEN [trk EXCEPT !.pause = PAUSE_TRAILING_BYTES]
    ELSE IF IsCtrl(code) THEN [trk EXCEPT !.ctrl = (code = "ctrl+")]
    ELSE trk

\* Whether it raises INTERRUPT_REQUESTED.
IsInterrupt(trk, code) == trk.pause = 0 /\ code = "c+" /\ trk.ctrl
=============================================================================
