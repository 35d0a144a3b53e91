------------------------------ MODULE Microphone ------------------------------
(***************************************************************************)
(* The microphone of the desktop client: the player's mute and the consent *)
(* gate (src-tauri mic_gate.rs, hotkeys.rs, commands.rs) and the voice     *)
(* connection that they are pushed to (rust-livekit lib.rs), which is lost *)
(* and joined again by a supervisor of its own.                            *)
(*                                                                         *)
(* Each side computes whether the microphone is to be closed and pushes    *)
(* the result in a second step; the client keeps it as a flag and applies  *)
(* it to the track it has.                                                 *)
(***************************************************************************)
EXTENDS Integers

CONSTANTS
  MaxChanges,  \* bound: changes of the mute and of the gate
  MaxLosses    \* bound: times that the room is lost

\* Whoever pushes: a mute button, a key, the shell with its cues, and whoever joins the voice room.
Side == {"button", "key", "shell", "joiner"}

VARIABLES
  userMuted,  \* MicGate.user_muted
  gateHeld,   \* MicGate.gate_held
  push,       \* what each side has still to push
  flag,       \* LiveKitClient.microphone_muted
  room,       \* the active room: whether there is one, and whether its track is muted
  device,     \* whether the capture device is recording
  joining,    \* what the supervisor is doing, and the track that it has published
  client,     \* whether there is a LiveKitClient
  changes, losses,
  behind,     \* ghost: what was pushed last is not the newest result
  missed      \* ghost: the flag changed after it was applied to a track that was not active yet

vars == <<userMuted, gateHeld, push, flag, room, device, joining, client, changes, losses, behind, missed>>

NoPush == "none"
NoRoom == [active |-> FALSE, muted |-> TRUE]

TypeOK ==
  /\ {userMuted, gateHeld, flag, device, client, behind, missed} \subseteq BOOLEAN
  /\ push \in [Side -> {NoPush, "due", "mute", "unmute"}]
  /\ room \in [active : BOOLEAN, muted : BOOLEAN]
  /\ joining \in [at : {"joined", "wait", "join", "publish", "applied", "ended"}, muted : BOOLEAN]
  /\ changes \in 0..MaxChanges /\ losses \in 0..MaxLosses
  /\ ~client => ~room.active /\ ~device /\ joining.at = "ended"

Init ==
  /\ userMuted = TRUE /\ gateHeld = FALSE /\ push = [s \in Side |-> NoPush]
  /\ flag = TRUE /\ room = NoRoom /\ device = FALSE
  /\ joining = [at |-> "ended", muted |-> TRUE] /\ client = FALSE
  /\ changes = 0 /\ losses = 0 /\ behind = FALSE /\ missed = FALSE

-----------------------------------------------------------------------------
(* MicGate.                                                                *)

\* effective_mute
\* Mutant: only the player's side counts.
PlayersMute(user, gate) == user
EffectiveMute(user, gate) == user \/ gate

Pushing(user, gate) == IF EffectiveMute(user, gate) THEN "mute" ELSE "unmute"

\* set_user_muted of the button or a key, set_gate of the shell.
Changes(side, user, gate) ==
  /\ push[side] = NoPush /\ changes < MaxChanges
  /\ userMuted' = user /\ gateHeld' = gate
  /\ push' = [push EXCEPT ![side] = Pushing(user, gate)]
  /\ changes' = changes + 1
  /\ UNCHANGED <<flag, room, device, joining, client, losses, behind, missed>>

SetUserMuted(side, muted) == side \in {"button", "key"} /\ Changes(side, muted, gateHeld)
SetGate(held) == Changes("shell", userMuted, held)

\* session_sign_out releases the gate, and pushes nothing.
SignOut ==
  /\ push["shell"] = NoPush /\ gateHeld
  /\ gateHeld' = FALSE
  /\ behind' = (behind \/ ~userMuted)
  /\ UNCHANGED <<userMuted, push, flag, room, device, joining, client, changes, losses, missed>>

-----------------------------------------------------------------------------
(* LiveKitClient.                                                          *)

\* livekit_connect: the first join has succeeded, muted and with the device released; then the mute of
\* the moment is computed, and pushed.
Connect ==
  /\ ~client /\ push["joiner"] = NoPush
  /\ client' = TRUE /\ flag' = TRUE
  /\ joining' = [at |-> "applied", muted |-> TRUE]
  /\ push' = [push EXCEPT !["joiner"] = "due"]
  /\ missed' = FALSE
  /\ UNCHANGED <<userMuted, gateHeld, room, device, changes, losses, behind>>

Compute ==
  /\ push["joiner"] = "due"
  /\ push' = [push EXCEPT !["joiner"] = Pushing(userMuted, gateHeld)]
  /\ UNCHANGED <<userMuted, gateHeld, flag, room, device, joining, client, changes, losses, behind, missed>>

\* livekit_disconnect: the room is left, the device released, the supervisor aborted.
Disconnect ==
  /\ client /\ push["joiner"] = NoPush
  /\ client' = FALSE /\ room' = NoRoom /\ device' = FALSE
  /\ joining' = [at |-> "ended", muted |-> TRUE]
  /\ UNCHANGED <<userMuted, gateHeld, push, flag, changes, losses, behind, missed>>

\* set_microphone_muted, under the lock of the client: the flag, the device, and the track of the
\* active room if there is one.
\* Mutant: the flag is not kept.
FlagStays(muted) == flag
FlagSet(muted) == muted
Push(side) ==
  LET muted == push[side] = "mute" IN
  /\ push[side] \in {"mute", "unmute"}
  /\ push' = [push EXCEPT ![side] = NoPush]
  /\ IF ~client THEN UNCHANGED <<flag, room, device>>
     ELSE /\ flag' = FlagSet(muted)
          /\ room' = IF room.active THEN [room EXCEPT !.muted = muted] ELSE room
          /\ device' = ~muted
  /\ behind' = (muted # EffectiveMute(userMuted, gateHeld))
  /\ missed' = (missed \/ (joining.at = "applied" /\ joining.muted # muted))
  /\ UNCHANGED <<userMuted, gateHeld, joining, client, changes, losses>>

\* run_until_lost ends: the network, the server, or the machine slept; then there is no active room.
LoseRoom ==
  /\ joining.at = "joined" /\ losses < MaxLosses
  /\ losses' = losses + 1
  /\ room' = NoRoom /\ missed' = FALSE
  /\ \E next \in {"wait", "join"} : joining' = [joining EXCEPT !.at = next]
  /\ UNCHANGED <<userMuted, gateHeld, push, flag, device, client, changes, behind>>

\* The backoff is over; join_once connects to the room, and publishes a new track, unmuted.
Rejoins ==
  /\ \/ joining.at = "wait" /\ joining' = [joining EXCEPT !.at = "join"]
     \/ joining.at = "join" /\ joining' = [joining EXCEPT !.at = "wait"]
     \/ joining.at = "join" /\ joining' = [at |-> "publish", muted |-> FALSE]
  /\ UNCHANGED <<userMuted, gateHeld, push, flag, room, device, client, changes, losses, behind, missed>>

\* The end of join_once: the mute is applied to the new track.
\* Mutant: to none.
NotApplied == FALSE
Applied == flag
ApplyToNew ==
  /\ joining.at = "publish"
  /\ joining' = [at |-> "applied", muted |-> Applied]
  /\ device' = ~Applied
  /\ UNCHANGED <<userMuted, gateHeld, push, flag, room, client, changes, losses, behind, missed>>

\* supervise makes the room the active one.
Activate ==
  /\ joining.at = "applied"
  /\ joining' = [joining EXCEPT !.at = "joined"]
  /\ room' = [active |-> TRUE, muted |-> joining.muted]
  /\ UNCHANGED <<userMuted, gateHeld, push, flag, device, client, changes, losses, behind, missed>>

-----------------------------------------------------------------------------

Next ==
  \/ \E b \in BOOLEAN : SetGate(b) \/ \E s \in Side : SetUserMuted(s, b)
  \/ SignOut \/ Connect \/ Compute \/ Disconnect
  \/ \E s \in Side : Push(s)
  \/ LoseRoom \/ Rejoins \/ ApplyToNew \/ Activate

Spec == Init /\ [][Next]_vars

-----------------------------------------------------------------------------

Flows == device /\ room.active /\ ~room.muted

\* Nothing is to be pushed and the room is there.
Quiet == joining.at = "joined" /\ \A s \in Side : push[s] = NoPush

\* mic_gate.rs:7: audio flows only if neither side holds the microphone closed (it is not so: see the
\* README).
GateIsKept == Quiet => (Flows => ~userMuted /\ ~gateHeld)

\* lib.rs:333: the same, and that it flows when it should, across losses of the room: unless an older
\* result was pushed last, or one came while a track was about to become active.
MicFollows == Quiet /\ ~behind /\ ~missed => (Flows <=> ~userMuted /\ ~gateHeld)

=============================================================================
