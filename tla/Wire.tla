-------------------------------- MODULE Wire --------------------------------
(***************************************************************************)
(* The binary frame a game server sends thirty times a second and a client *)
(* reads (shared/src/protocol/snapshot.ts), byte by byte, and the commands *)
(* the match servers and the supervisor send to a game server.             *)
(*                                                                         *)
(* A frame is a header and a sequence of sections, each a type, a length   *)
(* of two bytes and a payload.  What a snapshot leaves out means "nothing  *)
(* changed"; an empty list means "none any more"; and the decoder has to   *)
(* keep the two apart, to skip the sections of a later build, and to       *)
(* refuse a frame that was cut.  The client also decodes, merges and       *)
(* encodes again the frames it could not show yet (BufferedSnapshots), and *)
(* so does the replay page: what was read once must be read again.         *)
(*                                                                         *)
(* Positions, directions and ratios are real numbers to the program and    *)
(* bytes on the wire: a number is a pair <<n, d>>, the fraction n/d.       *)
(***************************************************************************)
EXTENDS Integers, Sequences, FiniteSets

LOCAL INSTANCE SequencesExt

CONSTANTS Foreign,          \* section types this build does not know
          Unset,            \* the field is not in the snapshot (undefined)
          Garbled,          \* SnapshotDecodeError
          Calm              \* storm: null

ASSUME WireAssumption == \A t \in Foreign : t \in 0 .. 255 /\ t \notin 1 .. 7 /\ t # 9

VARIABLES said,     \* the snapshot the sender encoded
          frame,    \* the bytes on the wire
          whole,    \* no byte of the frame was lost
          read,     \* what the reader made of it
          command   \* the command a game server took from its stream, and whether it obeyed

wireVars == <<said, frame, whole, read, command>>

Larger(a, b) == IF a > b THEN a ELSE b
Smaller(a, b) == IF a < b THEN a ELSE b
Each(Op(_), s) == [i \in 1 .. Len(s) |-> Op(s[i])]
Joined(s) == FlattenSeq(s)

---------------------------------------------------------------------------
(* Bytes.                                                                  *)

\* Math.round: to the nearest integer, a half upwards
Rounded(q) == (2 * q[1] + q[2]) \div (2 * q[2])
Whole(n) == <<n, 1>>
Clamp(lo, hi, n) == Larger(lo, Smaller(hi, n))

U8(q) == <<Clamp(0, 255, Rounded(q))>>
I8(q) == <<Clamp(-128, 127, Rounded(q)) % 256>>
\* A length that does not fit is cut to its low bytes; a value is clamped.
LittleEndian(n) == <<n % 256, (n \div 256) % 256>>
U32(n) == LittleEndian(n) \o LittleEndian(n \div 65536)
U16(q) == LittleEndian(Clamp(0, 65535, Rounded(q)))
ratioByte(q) == U8(<<q[1] * 255, q[2]>>)
facingByte(q) == I8(<<q[1] * 127, q[2]>>)

\* ByteWriter.section
section(type, body) == <<type>> \o LittleEndian(Len(body)) \o body

EFFECT_BITS == <<"dash", "frenzy", "exhaust">>
EffectMask(effects) ==
    (IF "dash" \in DOMAIN effects THEN 1 ELSE 0)
        + (IF "frenzy" \in DOMAIN effects THEN 2 ELSE 0)
        + (IF "exhaust" \in DOMAIN effects THEN 4 ELSE 0)
HasBit(n, bit) == (n \div (2 ^ bit)) % 2 = 1

\* The flags of a player: Obscured, Tagger, HasEmoji
PlayerFlags(p) == (IF p.obscured THEN 1 ELSE 0) + (IF p.isTagger THEN 2 ELSE 0)
                    + (IF p.emojiId # Unset THEN 4 ELSE 0)

PlayerBytes(p) ==
    U8(Whole(p.id)) \o U16(p.x) \o U16(p.y) \o facingByte(p.facingX) \o facingByte(p.facingY)
        \o U8(Whole(p.colorIndex)) \o <<PlayerFlags(p), EffectMask(p.effects)>>
        \o Joined(Each(LAMBDA e : IF e \in DOMAIN p.effects THEN ratioByte(p.effects[e]) ELSE <<>>, EFFECT_BITS))
        \o (IF p.emojiId # Unset THEN U8(Whole(p.emojiId)) ELSE <<>>)

SpotBytes(c) == U8(Whole(c.x)) \o U8(Whole(c.y))

\* The name's bytes are cut at 255, wherever that falls in a character.
RosterBytes(r) ==
    LET name == SubSeq(r.nickname, 1, Smaller(255, Len(r.nickname))) IN
    U8(Whole(r.id)) \o U8(Whole(Len(name))) \o name

---------------------------------------------------------------------------
(* encodeSnapshot: a section per field the snapshot has.  An empty list of *)
(* tile changes, regions or names is left out; an empty list of seen-      *)
(* through tiles, players or cooldowns is written, for it means "none".    *)

Present(f) == f # Unset
NotEmpty(f) == f # Unset /\ f # <<>>
If(test, bytes) == IF test THEN bytes ELSE <<>>

MapSection(s) ==
    If(Present(s.map),
       section(1, U8(Whole(Len(s.map[1]))) \o U8(Whole(Len(s.map)))
                    \o Joined(Each(LAMBDA row : Joined(Each(LAMBDA t : U8(Whole(t)), row)), s.map))))

ChangesSection(s) ==
    If(NotEmpty(s.tileChanges),
       section(2, U16(Whole(Len(s.tileChanges)))
                    \o Joined(Each(LAMBDA c : SpotBytes(c) \o U8(Whole(c.physics)), s.tileChanges))))

\* Mutant: an empty list of seen-through tiles is left out like the others.
AlphasOnlyWhenSome(s) ==
    If(NotEmpty(s.tileAlphas),
       section(3, U16(Whole(Len(s.tileAlphas)))
                    \o Joined(Each(LAMBDA a : SpotBytes(a) \o ratioByte(a.alpha), s.tileAlphas))))

AlphasSection(s) ==
    If(Present(s.tileAlphas),
       section(3, U16(Whole(Len(s.tileAlphas)))
                    \o Joined(Each(LAMBDA a : SpotBytes(a) \o ratioByte(a.alpha), s.tileAlphas))))

StormSection(s) ==
    If(Present(s.storm),
       section(4, IF s.storm = Calm THEN <<0>>
                  ELSE <<1>> \o U16(s.storm.x) \o U16(s.storm.y) \o U16(s.storm.width) \o U16(s.storm.height)))

PlayersSection(s) ==
    If(Present(s.players),
       section(5, U8(Whole(Len(s.players))) \o Joined(Each(PlayerBytes, s.players))))

RegionsSection(s) ==
    If(NotEmpty(s.regions),
       section(6, U8(Whole(Len(s.regions)))
                    \o Joined(Each(LAMBDA r : SpotBytes(r) \o ratioByte(r.remaining), s.regions))))

SelfSection(s) ==
    If(Present(s.selfId),
       section(7, U8(Whole(s.selfId))
                    \o If(Present(s.cooldowns),
                          U8(Whole(Len(s.cooldowns)))
                            \o Joined(Each(LAMBDA c : U8(Whole(c.slot)) \o U16(Whole(c.remainingMs)), s.cooldowns)))))

RosterSection(s) ==
    If(NotEmpty(s.roster),
       section(9, U8(Whole(Len(s.roster))) \o Joined(Each(RosterBytes, s.roster))))

HeaderBytes(s) == <<2, IF s.full THEN 1 ELSE 0>> \o U32(s.tick)

encodeSnapshot(s) ==
    Joined(<<HeaderBytes(s), MapSection(s), ChangesSection(s), AlphasSection(s), StormSection(s),
             PlayersSection(s), RegionsSection(s), SelfSection(s), RosterSection(s)>>)
---------------------------------------------------------------------------
(* decodeSnapshot: every count and every offset is checked against the     *)
(* section's end before it is used (`need`), and a section of a type this  *)
(* build does not know is passed over.                                     *)

Word(b, p) == b[p] + 256 * b[p + 1]
Signed(n) == IF n > 127 THEN n - 256 ELSE n

\* count entries of three bytes from p on; need(count * 3)
Triples(b, p, end, count, Entry(_)) ==
    IF p + 3 * count > end THEN Garbled ELSE [i \in 1 .. count |-> Entry(p + 3 * (i - 1))]

\* Two counting bytes, or one, ahead of a list of triples
ListAfterWord(b, p, end, Entry(_)) ==
    IF p + 2 > end THEN Garbled ELSE Triples(b, p + 2, end, Word(b, p), Entry)
ListAfterByte(b, p, end, Entry(_)) ==
    IF p + 1 > end THEN Garbled ELSE Triples(b, p + 1, end, b[p], Entry)

readMap(b, p, end) ==
    IF p + 2 > end \/ p + 2 + b[p] * b[p + 1] > end THEN Garbled
    ELSE [y \in 1 .. b[p + 1] |-> [x \in 1 .. b[p] |-> b[p + 2 + (y - 1) * b[p] + x - 1]]]

readChanges(b, p, end) ==
    ListAfterWord(b, p, end, LAMBDA q : [x |-> b[q], y |-> b[q + 1], physics |-> b[q + 2]])

readAlphas(b, p, end) ==
    ListAfterWord(b, p, end, LAMBDA q : [x |-> b[q], y |-> b[q + 1], alpha |-> <<b[q + 2], 255>>])

readStorm(b, p, end) ==
    IF p + 1 > end THEN Garbled
    ELSE IF b[p] = 0 THEN Calm
    ELSE IF p + 9 > end THEN Garbled
    ELSE [x |-> Whole(Word(b, p + 1)), y |-> Whole(Word(b, p + 3)),
          width |-> Whole(Word(b, p + 5)), height |-> Whole(Word(b, p + 7))]

\* The bits of the mask that are set below this one: how far its byte is
BitsBelow(mask, bit) == Cardinality({k \in 0 .. bit - 1 : HasBit(mask, k)})

\* One player at p, and where the next begins
readPlayer(b, p, end) ==
    IF p + 10 > end THEN Garbled
    ELSE LET mask == b[p + 9]
             flags == b[p + 8]
             effectsEnd == p + 10 + BitsBelow(mask, 3)
             next == effectsEnd + (IF HasBit(flags, 2) THEN 1 ELSE 0)
         IN IF next > end THEN Garbled
            ELSE [next |-> next,
                  player |-> [id |-> b[p], x |-> Whole(Word(b, p + 1)), y |-> Whole(Word(b, p + 3)),
                              facingX |-> <<Signed(b[p + 5]), 127>>, facingY |-> <<Signed(b[p + 6]), 127>>,
                              colorIndex |-> b[p + 7], obscured |-> HasBit(flags, 0), isTagger |-> HasBit(flags, 1),
                              effects |-> [e \in {EFFECT_BITS[k + 1] : k \in {k \in 0 .. 2 : HasBit(mask, k)}} |->
                                             LET bit == CHOOSE k \in 0 .. 2 : EFFECT_BITS[k + 1] = e IN
                                             <<b[p + 10 + BitsBelow(mask, bit)], 255>>],
                              emojiId |-> IF HasBit(flags, 2) THEN b[effectsEnd] ELSE Unset]]

RECURSIVE readPlayers(_, _, _, _)
readPlayers(b, p, end, count) ==
    IF count = 0 THEN <<>>
    ELSE LET one == readPlayer(b, p, end) IN
         IF one = Garbled THEN Garbled
         ELSE LET rest == readPlayers(b, one.next, end, count - 1) IN
              IF rest = Garbled THEN Garbled ELSE <<one.player>> \o rest

readRegions(b, p, end) ==
    ListAfterByte(b, p, end, LAMBDA q : [x |-> b[q], y |-> b[q + 1], remaining |-> <<b[q + 2], 255>>])

\* A frame of an older build ends after the number: cooldowns stay unset.
readCooldowns(b, p, end) ==
    IF p + 1 > end THEN Unset
    ELSE ListAfterByte(b, p, end, LAMBDA q : [slot |-> b[q], remainingMs |-> Word(b, q + 1)])

RECURSIVE readRoster(_, _, _, _)
readRoster(b, p, end, count) ==
    IF count = 0 THEN <<>>
    ELSE IF p + 2 > end \/ p + 2 + b[p + 1] > end THEN Garbled
    ELSE LET rest == readRoster(b, p + 2 + b[p + 1], end, count - 1) IN
         IF rest = Garbled THEN Garbled
         ELSE <<[id |-> b[p], nickname |-> SubSeq(b, p + 2, p + 1 + b[p + 1])]>> \o rest

Set(s, field, value) == IF value = Garbled THEN Garbled ELSE [s EXCEPT ![field] = value]

readSection(s, type, b, p, end) ==
    CASE type = 1 -> Set(s, "map", readMap(b, p, end))
      [] type = 2 -> Set(s, "tileChanges", readChanges(b, p, end))
      [] type = 3 -> Set(s, "tileAlphas", readAlphas(b, p, end))
      [] type = 4 -> Set(s, "storm", readStorm(b, p, end))
      [] type = 5 -> Set(s, "players", IF p + 1 > end THEN Garbled ELSE readPlayers(b, p + 1, end, b[p]))
      [] type = 6 -> Set(s, "regions", readRegions(b, p, end))
      [] type = 7 -> IF p + 1 > end THEN Garbled
                     ELSE Set([s EXCEPT !.selfId = b[p]], "cooldowns", readCooldowns(b, p + 1, end))
      [] type = 9 -> Set(s, "roster", IF p + 1 > end THEN Garbled ELSE readRoster(b, p + 1, end, b[p]))
      [] OTHER -> s

\* Sections from p on, until fewer bytes than a section's header are left
RECURSIVE readSections(_, _, _)
readSections(s, b, p) ==
    IF s = Garbled THEN Garbled
    ELSE IF p + 2 > Len(b) THEN s
    ELSE LET start == p + 3
             end == start + Word(b, p + 1)
         IN IF end > Len(b) + 1 THEN Garbled
            ELSE readSections(readSection(s, b[p], b, start, end), b, end)

NoFields == [full |-> FALSE, tick |-> 0, map |-> Unset, tileChanges |-> Unset, tileAlphas |-> Unset,
          storm |-> Unset, players |-> Unset, regions |-> Unset, selfId |-> Unset,
          cooldowns |-> Unset, roster |-> Unset]

decodeSnapshot(b) ==
    IF Len(b) < 6 THEN Garbled
    ELSE readSections([NoFields EXCEPT !.full = HasBit(b[2], 0), !.tick = Word(b, 3) + 65536 * Word(b, 5)], b, 7)

---------------------------------------------------------------------------
(* control-codec.ts: the commands of the match servers and the supervisor  *)
(* are checked field by field before a game server acts on one; a command  *)
(* that fails is dropped without an answer.  A text is its length.         *)

Text(n) == n # Unset /\ n > 0
BoundedText(n, most) == Text(n) /\ n <= most
NullableText(n, most) == n = Unset \/ n <= most

MAX_PLAYERS_PER_ROOM == 8

createRoomPayload(p) ==
    /\ BoundedText(p.matchId, 128) /\ BoundedText(p.roomName, 20)
    /\ BoundedText(p.nickname, 20) /\ BoundedText(p.mapId, 64)
    /\ NullableText(p.password, 32)
    /\ p.capacity \in (IF p.mode = "training" THEN 1 ELSE 2) .. MAX_PLAYERS_PER_ROOM
    /\ p.mode \in {Unset, "match", "training"}

reserveJoinPayload(p) ==
    /\ BoundedText(p.roomId, 128) /\ BoundedText(p.nickname, 20) /\ NullableText(p.password, 32)

\* A room moves with its members; what the source did not set is left out.
adoptRoomPayload(p) ==
    /\ \A n \in {p.roomId, p.matchId, p.roomName, p.mapId} : Text(n)
    /\ p.playedGames >= 0
    /\ p.grantedMatchId = Unset \/ Text(p.grantedMatchId)
    /\ p.password = Unset \/ Text(p.password)
    /\ Len(p.members) \in 1 .. MAX_PLAYERS_PER_ROOM
    /\ \A i \in 1 .. Len(p.members) : Text(p.members[i])

validPayload(type, p) ==
    CASE type = "CreateRoom" -> createRoomPayload(p)
      [] type = "ReserveJoin" -> reserveJoinPayload(p)
      [] type \in {"ReserveResume", "ReleaseSeat"} -> BoundedText(p.roomId, 128)
      [] type = "KickUser" -> BoundedText(p.roomId, 128) /\ BoundedText(p.reason, 256)
      [] type = "DrainServer" -> Text(p.serverId)
      [] type = "AdoptRoom" -> adoptRoomPayload(p)
      [] type = "DeleteReplay" -> BoundedText(p.replayId, 128) /\ BoundedText(p.storageKey, 1024)
      [] type = "GrantMatch" -> BoundedText(p.roomId, 64)
      [] OTHER -> FALSE

decodeCommand(c) == c.deadlineAt >= c.issuedAt /\ validPayload(c.type, c.payload)

Command(type, payload) == [type |-> type, payload |-> payload, issuedAt |-> 0, deadlineAt |-> 6]

Uuid == 36

\* CreateRoomDto and rooms.service.ts create: a room of one is asked for in
\* either mode, and the game server is to look at the number again.
Creations ==
    {Command("CreateRoom", [matchId |-> Uuid, roomName |-> name, nickname |-> nick, mapId |-> map,
                            password |-> IF pw = 0 THEN Unset ELSE pw, capacity |-> cap, mode |-> mode]) :
        name \in {1, 20}, nick \in {2, 12}, map \in {1, 64}, pw \in {0, 4, 8},
        cap \in {1, 2, 8}, mode \in {Unset, "training"}}

Joins == {Command("ReserveJoin", [roomId |-> Uuid, nickname |-> nick, password |-> IF pw = 0 THEN Unset ELSE pw]) :
            nick \in {2, 12}, pw \in {0, 4, 8}}

Evictions == {Command("KickUser", [roomId |-> Uuid, reason |-> Smaller(256, n)]) : n \in {15, 16, 500}}

\* exportForHandOff: the room as its creation and its members made it
Moves == {Command("AdoptRoom", [roomId |-> Uuid, matchId |-> Uuid, roomName |-> 20, mapId |-> 64,
                                playedGames |-> n, grantedMatchId |-> IF n = 0 THEN Unset ELSE Uuid,
                                password |-> IF pw = 0 THEN Unset ELSE pw, members |-> [i \in 1 .. k |-> 12]]) :
            n \in 0 .. 1, pw \in {0, 8}, k \in {1, 8}}

OtherCommands ==
    {Command("ReserveResume", [roomId |-> Uuid]), Command("ReleaseSeat", [roomId |-> Uuid]),
     Command("DrainServer", [serverId |-> 8]), Command("GrantMatch", [roomId |-> Uuid])}
        \cup {Command("DeleteReplay", [replayId |-> Uuid, storageKey |-> n]) : n \in {1, 1024}}

---------------------------------------------------------------------------
(* What a sender may say.                                                  *)

Runner == [id |-> 1, x |-> <<199, 2>>, y |-> Whole(300), facingX |-> <<-1, 1>>, facingY |-> Whole(0),
           colorIndex |-> 0, obscured |-> FALSE, isTagger |-> FALSE, effects |-> <<>>, emojiId |-> Unset]
Tagger == [Runner EXCEPT !.id = 2, !.isTagger = TRUE, !.obscured = TRUE, !.facingX = <<7, 10>>, !.emojiId = 8,
           !.effects = [e \in {"dash", "exhaust"} |-> IF e = "dash" THEN <<1, 3>> ELSE <<1, 1>>]]
Dasher == [Runner EXCEPT !.id = 3, !.effects = [e \in {"frenzy"} |-> <<1, 2>>]]

Sayable ==
    [map |-> {<<<<1, 0, 2>>, <<3, 1, 0>>>>},
     tileChanges |-> {<<>>, <<[x |-> 4, y |-> 5, physics |-> 1], [x |-> 0, y |-> 200, physics |-> 0]>>},
     tileAlphas |-> {<<>>, <<[x |-> 1, y |-> 2, alpha |-> <<35, 100>>]>>},
     storm |-> {Calm, [x |-> Whole(32), y |-> <<65, 2>>, width |-> Whole(640), height |-> Whole(70000)]},
     players |-> {<<>>, <<Runner>>, <<Tagger, Runner>>, <<Dasher, Tagger>>},
     regions |-> {<<>>, <<[x |-> 3, y |-> 3, remaining |-> <<2, 3>>]>>},
     selfId |-> {2},
     cooldowns |-> {<<>>, <<[slot |-> 0, remainingMs |-> 1500], [slot |-> 1, remainingMs |-> 40]>>},
     roster |-> {<<>>, <<[id |-> 1, nickname |-> <<65>>], [id |-> 2, nickname |-> <<>>]>>}]

\* Two fields, whichever, and the number that cooldowns go with
With(s, f, v) == IF f = "cooldowns" THEN [s EXCEPT !.cooldowns = v, !.selfId = 2] ELSE [s EXCEPT ![f] = v]

---------------------------------------------------------------------------
WireInit == /\ said = Unset
            /\ frame = <<>>
            /\ whole = TRUE
            /\ read = Unset
            /\ command = Unset

\* A server, the tutorial or the recorder encodes a frame.
Encode == /\ said = Unset /\ command = Unset
          /\ \E f, g \in DOMAIN Sayable, full \in BOOLEAN, tick \in {7, 65537} :
             \E v \in Sayable[f], w \in Sayable[g] :
                /\ f # "map" => ~full /\ tick = 7
                /\ said' = With(With([NoFields EXCEPT !.full = full, !.tick = tick], g, w), f, v)
                /\ frame' = encodeSnapshot(said')
          /\ UNCHANGED <<whole, read, command>>

\* A later build adds a section of its own behind the ones this build knows.
Extend == /\ said # Unset /\ read = Unset /\ whole
          /\ \E t \in Foreign, body \in {<<>>, <<5, 0, 9>>} :
                frame' = encodeSnapshot(said) \o section(t, body)
          /\ UNCHANGED <<said, whole, read, command>>

\* The frame ends early (a recording that was cut).
CutShort == /\ said # Unset /\ read = Unset /\ whole
       /\ \E n \in 0 .. Len(frame) - 1 : frame' = SubSeq(frame, 1, n)
       /\ whole' = FALSE
       /\ UNCHANGED <<said, read, command>>

Decode == /\ said # Unset /\ read = Unset
          /\ read' = decodeSnapshot(frame)
          /\ UNCHANGED <<said, frame, whole, command>>

\* BufferedSnapshots, ReplayAnalyzer: what was read is encoded again
EncodeAgain == /\ read \notin {Unset, Garbled}
               /\ said' = read
               /\ frame' = encodeSnapshot(read)
               /\ whole' = TRUE
               /\ read' = Unset
               /\ UNCHANGED command

\* A command goes through the stream.
Order == /\ said = Unset
         /\ \/ \E c \in Creations : command' = [sent |-> c, taken |-> decodeCommand(c)]
            \/ \E c \in Joins : command' = [sent |-> c, taken |-> decodeCommand(c)]
            \/ \E c \in Evictions : command' = [sent |-> c, taken |-> decodeCommand(c)]
            \/ \E c \in Moves : command' = [sent |-> c, taken |-> decodeCommand(c)]
            \/ \E c \in OtherCommands : command' = [sent |-> c, taken |-> decodeCommand(c)]
         /\ UNCHANGED <<said, frame, whole, read>>

WireNext == Order \/ Encode \/ Extend \/ CutShort \/ Decode \/ EncodeAgain

WireSpec == WireInit /\ [][WireNext]_wireVars

---------------------------------------------------------------------------
(* What a reader may rely on, without the codec's own functions.           *)

Abs(n) == IF n < 0 THEN -n ELSE n

\* q was sent on a scale of u steps to one: r is the nearest step to it
Near(r, q, u) == r[1] * q[2] = q[1] * r[2]
                    \/ (r[2] \in {1, u} /\ 2 * Abs(r[1] * q[2] - q[1] * r[2]) <= q[2])
\* ... unless q is off the scale, and then r is its end
AtScale(r, q, u, top) == Near(r, q, u) \/ (q[1] > top * q[2] /\ r = Whole(top))

SamePlayer(r, p) ==
    /\ r.id = p.id /\ r.colorIndex = p.colorIndex /\ r.emojiId = p.emojiId
    /\ r.obscured = p.obscured /\ r.isTagger = p.isTagger
    /\ Near(r.x, p.x, 1) /\ Near(r.y, p.y, 1)
    /\ Near(r.facingX, p.facingX, 127) /\ Near(r.facingY, p.facingY, 127)
    /\ DOMAIN r.effects = DOMAIN p.effects
    /\ \A e \in DOMAIN p.effects : Near(r.effects[e], p.effects[e], 255)

SameList(r, l, Same(_, _)) == Len(r) = Len(l) /\ \A i \in 1 .. Len(l) : Same(r[i], l[i])

\* The field's meaning is that of the sender's; "none" for what it lost
SameField(f, r, v) ==
    CASE f = "players" -> SameList(r, v, SamePlayer)
      [] f = "tileAlphas" ->
            SameList(r, v, LAMBDA a, c : a.x = c.x /\ a.y = c.y /\ Near(a.alpha, c.alpha, 255))
      [] f = "regions" ->
            SameList(r, v, LAMBDA a, c : a.x = c.x /\ a.y = c.y /\ Near(a.remaining, c.remaining, 255))
      [] f = "storm" ->
            \/ r = Calm /\ v = Calm
            \/ r # Calm /\ v # Calm /\ \A k \in DOMAIN v : AtScale(r[k], v[k], 1, 65535)
      [] OTHER -> r = v

\* Fields whose absence and emptiness mean the same to every reader
Silent == {"tileChanges", "regions", "roster"}
MustArrive(f) == /\ said[f] # Unset
                 /\ f \in Silent => said[f] # <<>>
                 /\ f = "cooldowns" => said.selfId # Unset

\* A frame that arrives whole, later builds' sections or not, is read as what
\* was said, to the nearest step of each scale: a list said to be empty is
\* read as empty and one left out as left out.  A cut frame is refused, or
\* read as less than was said, never as something else.
FramesReadBack ==
    read # Unset =>
        /\ whole => read # Garbled
        /\ read # Garbled =>
            /\ read.full = said.full /\ read.tick = said.tick
            /\ \A f \in DOMAIN Sayable :
                /\ read[f] # Unset => said[f] # Unset /\ SameField(f, read[f], said[f])
                /\ whole /\ MustArrive(f) => read[f] # Unset

\* Every command a sender builds is obeyed; only a match for one is not.
CommandsAreTaken ==
    command # Unset =>
        command.taken = ~(/\ command.sent.type = "CreateRoom"
                          /\ command.sent.payload.capacity = 1
                          /\ command.sent.payload.mode # "training")

\* The two ends of a wire agree: frames are read as they were meant
\* (snapshot.ts encodeSnapshot, decodeSnapshot) and no command that a match
\* server or the supervisor sends is dropped as malformed (control-codec.ts
\* validPayload, which once left DeleteReplay out).
WireIsUnderstood == FramesReadBack /\ CommandsAreTaken

=============================================================================
