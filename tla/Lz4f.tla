--------------------------------- MODULE Lz4f ---------------------------------
(***************************************************************************)
(* The frame encoder and behind it the frame decoder, which gets what the  *)
(* encoder wrote, or a frame from elsewhere.  One begins when the other is *)
(* finished: there is one lock, and each holds it from init to finish.     *)
(***************************************************************************)
EXTENDS Lz4fEnc, Lz4fDec

CONSTANTS
    Frames,   \* frames from elsewhere, with the room for what they hold
    Idle      \* the job behind which they are decoded, one without bytes

ASSUME Lz4fAssumption ==
    /\ \A f \in Frames : f.bytes \in Seq(Byte) /\ f.room \in Nat
    /\ Idle \in Jobs /\ Idle.bytes = <<>>

vars == <<encVars, decVars>>

Init == EncInit /\ DecInit

FromEncoder == encVerdict = "ok" /\ Opened(wire, Len(job.bytes))

FromElsewhere == job = Idle /\ \E f \in Frames : Opened(f.bytes, f.room)

Decode ==
    /\ pc = "none" /\ encClosed
    /\ FromEncoder \/ FromElsewhere
    /\ UNCHANGED encVars

Next ==
    \/ EncNext /\ UNCHANGED decVars
    \/ Decode
    \/ pc # "none" /\ DecNext /\ UNCHANGED encVars

Spec == Init /\ [][Next]_vars

-----------------------------------------------------------------------------
(* Properties.                                                             *)

\* What was encoded comes back, in a buffer of just its size: every write that
\* succeeded is in the frame, and the frame is one the decoder takes; unless it
\* is above the decoder's ceiling, or there is no memory for its blocks.
RoundTrip ==
    verdict # "open" /\ encVerdict = "ok" /\ frame = wire /\ end = Len(frame)
      /\ err # "INVALID_INPUT" /\ Len(Given) <= MaxOutput /\ max >= BlockMax(job.id)
      => verdict = "ok" /\ out = Given
=============================================================================
