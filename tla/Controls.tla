------------------------------ MODULE Controls ------------------------------
(***************************************************************************)
(* From a finger to a step of the simulation: the keys and the joystick of *)
(* a player, the page's loop that sends them thirty times a second         *)
(* (GamePage.tsx), the packet's sequence number of two bytes (input.ts),   *)
(* and what the room keeps as the player's latest input (room.ts).         *)
(*                                                                         *)
(* Packets of one connection arrive in order, but the rate limiter may     *)
(* drop some, the number wraps, the connection may be lost and resumed     *)
(* with the game running on, and the page may be left and entered again.   *)
(* A direction is a set of the four bits; {} is "stand still".             *)
(***************************************************************************)
EXTENDS Integers, Sequences, FiniteSets

CONSTANTS Ring,         \* sequence numbers are 0 .. Ring - 1 (2^16)
          Key,          \* the directions of the keys the player uses
          Sector,       \* the eighths of the joystick he uses, 0 = right, clockwise
          MaxFlight,    \* bound on packets under way
          MaxDropped    \* bound on packets dropped in a row

ASSUME ControlsAssumption ==
    /\ Ring \in Nat /\ Ring % 2 = 0
    /\ MaxDropped \in Nat /\ MaxFlight \in Nat /\ 2 * (MaxDropped + 1) < Ring
    /\ Key \subseteq {"left", "right", "up", "down"} /\ Sector \subseteq 0 .. 7

VARIABLES
    pressed,    \* the page: keys its listeners have noted
    finger,     \* the sector the finger is in, or NoFinger
    joystick,   \* the joystick is on the screen (TouchControls)
    touch,      \* touchInput.ts: the direction of the joystick
    looping,    \* the page's input effect is running
    dialog,     \* the settings are open over the game
    number,     \* the page's next sequence number
    open,       \* the socket is open
    sees,       \* the client: the room is Playing
    flight,     \* packets under way
    steering,     \* the room is Playing, with this player in
    lastInputSequence, latestInput,     \* the room: what it took last, or none
    lastSent,   \* history: the last packet of this connection and game
    gap,        \* history: packets dropped since the last delivered
    restarted,  \* history: the page came back within a connection and game
    ignored     \* history: a packet was refused as old

controlVars == <<pressed, finger, joystick, touch, looping, dialog, number, open, sees, flight,
                 steering, lastInputSequence, latestInput, lastSent, gap, restarted, ignored>>
pageVars == <<pressed, finger, joystick, touch, looping, dialog, number>>
steerVars == <<steering, lastInputSequence, latestInput, ignored>>

NoFinger == -1
NoInput == -1       \* lastInputSequence, lastSent = null

ControlsTypeOK ==
    /\ pressed \subseteq Key /\ finger \in Sector \cup {NoFinger} /\ number \in 0 .. Ring - 1
    /\ lastInputSequence \in -1 .. Ring - 1 /\ Len(flight) <= MaxFlight

---------------------------------------------------------------------------
(* input.ts.                                                               *)

\* Mutant: numbers are compared as they are.
PlainDifference(a, b) == a - b

\* The difference as a signed number of sixteen bits
compareSequence(a, b) == LET d == (a - b) % Ring IN IF 2 * d >= Ring THEN d - Ring ELSE d

isNewerSequence(a, b) == compareSequence(a, b) > 0

nextSequence(n) == (n + 1) % Ring

\* Both ends of an axis together are neither; the length of a diagonal is
\* normalised and left out.
movementVector(bits) ==
    [x |-> (IF "right" \in bits THEN 1 ELSE 0) - (IF "left" \in bits THEN 1 ELSE 0),
     y |-> (IF "down" \in bits THEN 1 ELSE 0) - (IF "up" \in bits THEN 1 ELSE 0)]

\* touchInput.ts directionFromOffset, outside the dead zone
directionFromOffset(sector) ==
    (IF sector \in {0, 1, 7} THEN {"right"} ELSE {}) \cup (IF sector \in {1, 2, 3} THEN {"down"} ELSE {})
        \cup (IF sector \in {3, 4, 5} THEN {"left"} ELSE {}) \cup (IF sector \in {5, 6, 7} THEN {"up"} ELSE {})

---------------------------------------------------------------------------
ControlsInit ==
    /\ pressed = {} /\ finger = NoFinger /\ joystick = FALSE /\ touch = {}
    /\ looping = FALSE /\ dialog = FALSE
    /\ number = 0
    /\ open = TRUE /\ sees = FALSE /\ flight = <<>>
    /\ steering = FALSE /\ lastInputSequence = NoInput /\ latestInput = {}
    /\ lastSent = {} /\ gap = 0 /\ restarted = FALSE /\ ignored = FALSE

\* The keyboard and the joystick together
Direction == pressed \cup touch

\* GameSession.sendInput: only over an open socket and while the room plays
Sendable == open /\ sees

\* The page sends a direction with its next number, or fails to.
SendInput(bits) ==
    /\ number' = nextSequence(number)
    /\ IF Sendable
       THEN /\ flight' = Append(flight, [sequence |-> number, bits |-> bits])
            /\ lastSent' = bits
       ELSE UNCHANGED <<flight, lastSent>>

KeyDown == /\ looping
           /\ \E k \in Key \ pressed : pressed' = pressed \cup {k}
           /\ UNCHANGED <<finger, joystick, touch, looping, dialog, number, open, sees, flight,
                          lastSent, gap, restarted>> /\ UNCHANGED steerVars

\* A key is let go, or the window loses the focus and with it every keyup.
KeyUp == /\ looping /\ pressed # {}
         /\ pressed' \in {pressed \ {k} : k \in pressed} \cup {{}}
         /\ UNCHANGED <<finger, joystick, touch, looping, dialog, number, open, sees, flight,
                        lastSent, gap, restarted>> /\ UNCHANGED steerVars

\* The finger that took the joystick, and only it, moves it and lets it go.
FingerMoves == /\ joystick
               /\ \E s \in Sector \cup {NoFinger} :
                    /\ s # finger
                    /\ finger' = s
                    /\ touch' = IF s = NoFinger THEN {} ELSE directionFromOffset(s)
               /\ UNCHANGED <<pressed, joystick, looping, dialog, number, open, sees, flight,
                              lastSent, gap, restarted>> /\ UNCHANGED steerVars

\* The loop's timer.
TimerSends == /\ looping /\ Len(flight) < MaxFlight
              /\ SendInput(Direction)
              /\ UNCHANGED <<pressed, finger, joystick, touch, looping, dialog, open, sees,
                             gap, restarted>> /\ UNCHANGED steerVars

\* The joystick leaves the screen; its element is gone, and with it the
\* event that would have put the direction back: touch keeps its value.
JoystickGoes == joystick' = FALSE /\ finger' = NoFinger /\ UNCHANGED touch

\* The effect is set up anew, with no key noted, or is cleaned up: a last
\* packet says "stand still", if it can be sent at all.
LoopStarts == looping' = TRUE /\ pressed' = {} /\ UNCHANGED <<number, flight, lastSent>>

\* Mutant: the clean-up only stops the timer.
JustStops == looping' = FALSE /\ pressed' = {} /\ UNCHANGED <<number, flight, lastSent>>

LoopStops == looping' = FALSE /\ pressed' = {} /\ SendInput({})

\* The player opens the settings over the game, and closes them.
OpenSettings == /\ looping /\ ~dialog /\ Len(flight) < MaxFlight
                /\ dialog' = TRUE
                /\ LoopStops
                /\ JoystickGoes
                /\ UNCHANGED <<open, sees, gap, restarted>> /\ UNCHANGED steerVars

CloseSettings == /\ dialog
                 /\ dialog' = FALSE
                 /\ IF Sendable THEN LoopStarts ELSE UNCHANGED <<looping, pressed, number, flight, lastSent>>
                 /\ joystick' = sees
                 /\ UNCHANGED <<finger, touch, open, sees, gap, restarted>> /\ UNCHANGED steerVars

\* The client hears that the room plays ...
HearStart == /\ open /\ steering /\ ~sees
             /\ sees' = TRUE
             /\ IF dialog THEN UNCHANGED <<looping, pressed, number, flight, lastSent, joystick>>
                ELSE LoopStarts /\ joystick' = TRUE
             /\ UNCHANGED <<finger, touch, dialog, open, gap, restarted>> /\ UNCHANGED steerVars

\* ... and that it plays no longer, or not with this player, who is out.
HearEnd == /\ open /\ ~steering /\ sees
           /\ sees' = FALSE
           /\ looping' = FALSE /\ pressed' = {}
           /\ number' = IF looping THEN nextSequence(number) ELSE number
           /\ JoystickGoes
           /\ UNCHANGED <<flight, lastSent, dialog, open, gap, restarted>> /\ UNCHANGED steerVars

\* The page is left, and entered again, within one connection and one game:
\* its numbers begin anew.
Reenter == /\ looping /\ Len(flight) < MaxFlight
           /\ flight' = Append(flight, [sequence |-> number, bits |-> {}])
           /\ lastSent' = {}
           /\ number' = 0 /\ pressed' = {}
           /\ restarted' = TRUE
           /\ finger' = NoFinger
           /\ UNCHANGED <<touch, joystick, looping, dialog, open, sees, gap>> /\ UNCHANGED steerVars

---------------------------------------------------------------------------
(* The room.                                                               *)

\* Room.acceptInput
acceptInput(packet) ==
    IF ~steering THEN UNCHANGED <<lastInputSequence, latestInput, ignored>>
    ELSE IF lastInputSequence # NoInput /\ ~isNewerSequence(packet.sequence, lastInputSequence)
    THEN ignored' = TRUE /\ UNCHANGED <<lastInputSequence, latestInput>>
    ELSE /\ lastInputSequence' = packet.sequence
         /\ latestInput' = packet.bits
         /\ UNCHANGED ignored

\* RoomManager.onInput
Deliver == /\ flight # <<>>
           /\ acceptInput(Head(flight))
           /\ flight' = Tail(flight)
           /\ gap' = 0
           /\ UNCHANGED <<open, sees, lastSent, restarted, steering>> /\ UNCHANGED pageVars

\* The rate limiter refuses one.
Dropped == /\ flight # <<>> /\ gap < MaxDropped
           /\ flight' = Tail(flight)
           /\ gap' = gap + 1
           /\ UNCHANGED <<open, sees, lastSent, restarted>> /\ UNCHANGED pageVars /\ UNCHANGED steerVars

\* The room forgets what it had, when a game begins or a seat is taken up.
Forgets == /\ lastInputSequence' = NoInput /\ latestInput' = {}
           /\ lastSent' = {} /\ gap' = 0 /\ restarted' = FALSE /\ ignored' = FALSE

GameBegins == /\ ~steering /\ ~sees /\ flight = <<>>
              /\ steering' = TRUE
              /\ Forgets
              /\ UNCHANGED <<open, sees, flight>> /\ UNCHANGED pageVars

GameIsOver == /\ steering /\ sees
              /\ steering' = FALSE
              /\ UNCHANGED <<open, sees, flight, lastInputSequence, latestInput, lastSent, gap, restarted, ignored>>
              /\ UNCHANGED pageVars

\* The connection breaks: what was under way is lost, the loop is cleaned up
\* over a socket that is gone.
ConnectionBreaks == /\ open /\ steering
                    /\ open' = FALSE /\ flight' = <<>>
                    /\ looping' = FALSE /\ pressed' = {}
                    /\ number' = IF looping THEN nextSequence(number) ELSE number
                    /\ UNCHANGED <<finger, joystick, touch, dialog, sees, lastSent, gap, restarted>> /\ UNCHANGED steerVars

\* Room.onConnect of a resumed seat, and the page's loop again
ConnectionResumes == /\ ~open
                     /\ open' = TRUE
                     /\ sees' = steering
                     /\ Forgets
                     /\ looping' = (steering /\ ~dialog)
                     /\ UNCHANGED <<pressed, finger, joystick, touch, dialog, number, flight, steering>>

ControlsNext == KeyDown \/ KeyUp \/ FingerMoves \/ TimerSends \/ OpenSettings \/ CloseSettings \/ HearStart \/ HearEnd
                  \/ Reenter \/ Deliver \/ Dropped \/ GameBegins \/ GameIsOver
                  \/ ConnectionBreaks \/ ConnectionResumes

ControlsSpec == ControlsInit /\ [][ControlsNext]_controlVars

---------------------------------------------------------------------------
\* Room.resolvedInputs: where the simulation moves the player
Heading == IF steering /\ open THEN movementVector(latestInput) ELSE movementVector({})

\* What arrives is obeyed: the room never takes a newer packet for an old one,
\* though the numbers wrap and packets are dropped, games begin and connections
\* are resumed (input.ts compareSequence, room.ts acceptInput), and a player
\* whose page no longer listens to him stands still once the last packet is
\* in (GamePage.tsx, the effect's clean-up).  A page that came back within one
\* connection begins its numbers anew and is not heard for a while.
ControlsAreObeyed ==
    /\ ignored => restarted
    /\ (steering /\ open /\ flight = <<>> /\ gap = 0 /\ ~restarted) =>
            /\ latestInput = lastSent
            /\ ~looping => Heading = movementVector({})

=============================================================================
