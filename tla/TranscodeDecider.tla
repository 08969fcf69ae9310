--------------------------- MODULE TranscodeDecider ---------------------------
(***************************************************************************)
(* How a file is to be played (core/stream/decider.go, limitations.go,     *)
(* legacy_client.go), and the token that carries the decision to the       *)
(* request that streams it (token.go), while the file is replaced, scanned *)
(* and probed.                                                             *)
(*                                                                         *)
(* Names have their canonical form (aliases.go, codec.go) and profiles of  *)
(* other protocols than http are as if they were not there.  Sample rates  *)
(* are in kHz, bit rates in kbps, and time is counted in halves of a       *)
(* second.                                                                 *)
(***************************************************************************)
EXTENDS Naturals, SequencesExt, FiniteSetsExt

CONSTANTS
    Files,            \* contents a file may have: suffix, details in its tags, and as probed
    Clients,          \* what clients can play, within the settings of their players
    Defaults,         \* default bit rates of the formats that have a command
    Downsampling,     \* DefaultDownsamplingFormat, "" for none
    LegacyFormats,    \* formats asked for by legacy requests and forced by the server
    LegacyBitRates,   \* bit rates of the same, and of players; 0 for none
    MaxTime           \* bound: times the file is replaced

Names   == {"bitrate", "rate", "depth", "channels"}
Formats == DOMAIN Defaults
Details == [codec : STRING, bitrate : Nat, rate : Nat, depth : Nat, channels : Nat]

\* what the constants satisfy
DeciderAssumption ==
    /\ Defaults \in [Formats -> Nat] /\ MaxTime \in Nat
    /\ \A f \in Files : f.tags \in Details /\ f.stream \in Details
    /\ LegacyBitRates \subseteq Nat
    /\ Downsampling # "" => Downsampling \in LegacyFormats

VARIABLES
    disk,       \* the file: its content, and when it was written
    row,        \* the row of the file: the content and time scanned, and the content probed
    ask,        \* a getTranscodeDecision request: its client, the row it read, what it probed
    token,      \* the last transcode token, with the client it was made for
    crossed     \* has a scan come between a probe of another content and its storing?

vars == <<disk, row, ask, token, crossed>>

Idle    == [at |-> "idle"]
NoToken == [decision |-> [kind |-> "none"], ua |-> 0]

Second(t) == t \div 2

-----------------------------------------------------------------------------
(* Limitations: an option is a set, empty when a profile is to be rejected *)

Lossless(codec) == codec \in {"flac", "alac", "pcm", "dsd"}

Capped(x, cap) == IF cap > 0 /\ x > cap THEN cap ELSE x

\* the value brought within a limitation: lowered, never raised
ApplyIntLimitation(lim, x) ==
    CASE lim.comparison = "LessThanEqual"    -> {Min({x, Min(lim.values)})}
      [] lim.comparison = "GreaterThanEqual" -> {n \in {x} : n >= Min(lim.values)}
      [] lim.comparison = "NotEquals"        -> {x} \ lim.values
      [] lim.comparison = "Equals"           ->
            LET below == {v \in lim.values : v <= x}
            IN  IF below = {} THEN {} ELSE {Max(below)}

\* A lossless stream has no bit rate of its own, and none can be set for it.
ApplyLimitation(src, lim, ts) ==
    LET current == IF lim.name = "bitrate" /\ ts.bitrate = 0 THEN src.bitrate ELSE ts[lim.name]
    IN  IF lim.name = "depth" /\ ts.depth = 0 THEN {ts}
        ELSE {IF v = current THEN ts ELSE [ts EXCEPT ![lim.name] = v] :
                 v \in {n \in ApplyIntLimitation(lim, current) :
                          lim.name = "bitrate" /\ Lossless(ts.codec) => n = current}}

ApplyCodecLimitations(src, limits, ts) ==
    FoldLeft(LAMBDA done, lim : UNION {ApplyLimitation(src, lim, t) : t \in done}, {ts}, limits)

\* a limitation that is not required does not stand in the way of direct play
CheckLimitations(src, limits) ==
    \A lim \in ToSet(limits) :
        lim.required => ApplyIntLimitation(lim, src[lim.name]) = {src[lim.name]}

-----------------------------------------------------------------------------
(* Decisions *)

CodecRate(codec, rate) ==
    CASE codec = "opus" -> 48
      [] codec = "mp3"  -> Capped(rate, 48)
      [] codec = "aac"  -> Capped(rate, 96)
      [] OTHER          -> rate

CodecChannels(codec) == IF codec = "mp3" THEN 2 ELSE IF codec = "opus" THEN 8 ELSE 0

LimitsOf(client, codec) == IF codec \in DOMAIN client.limits THEN client.limits[codec] ELSE <<>>

\* MUTANT of TargetBitrate: the final cap is missing
MutTargetBitrate(src, format, client) ==
    IF Lossless(format) THEN 0
    ELSE IF ~Lossless(src.codec) THEN src.bitrate
    ELSE IF client.maxTranscoding > 0 THEN client.maxTranscoding
    ELSE IF client.maxAudio > 0 THEN client.maxAudio ELSE Defaults[format]

\* computeBitrate for a target that is not rejected
TargetBitrate(src, format, client) ==
    LET wanted == IF Lossless(format) THEN 0
                  ELSE IF ~Lossless(src.codec) THEN src.bitrate
                  ELSE IF client.maxTranscoding > 0 THEN client.maxTranscoding
                  ELSE IF client.maxAudio > 0 THEN client.maxAudio ELSE Defaults[format]
    IN  Capped(wanted, client.maxAudio)

OverBitrate(src, client) == client.maxAudio > 0 /\ src.bitrate > client.maxAudio

ComputeTranscodedStream(src, profile, client) ==
    LET codec == profile.format
        dsd   == src.codec = "dsd"
        ts    == [codec    |-> codec,
                  bitrate  |-> TargetBitrate(src, codec, client),
                  rate     |-> CodecRate(codec, IF dsd THEN src.rate \div 8 ELSE src.rate),
                  depth    |-> IF dsd /\ src.depth = 1 THEN 24 ELSE src.depth,
                  channels |-> Capped(Capped(src.channels, CodecChannels(codec)),
                                      profile.maxChannels)]
    IN  IF \/ codec \notin Formats
           \/ Lossless(codec) /\ (~Lossless(src.codec) \/ OverBitrate(src, client))
        THEN {}
        ELSE ApplyCodecLimitations(src, LimitsOf(client, codec), ts)

\* an empty list of containers or codecs allows any; "wav" is pcm in a wav file
CheckDirectPlayProfile(src, suffix, profile, client) ==
    /\ profile.containers # {} => suffix \in profile.containers
    /\ profile.codecs # {} =>
          \/ src.codec \in profile.codecs
          \/ src.codec = "pcm" /\ suffix = "wav" /\ "wav" \in profile.codecs
    /\ src.channels = Capped(src.channels, profile.maxChannels)
    /\ CheckLimitations(src, LimitsOf(client, src.codec))

\* direct play if any profile allows it, or else the first transcoding profile that fits
MakeDecision(src, suffix, client) ==
    LET made(i) == ComputeTranscodedStream(src, client.transcoding[i], client)
        able    == {i \in DOMAIN client.transcoding : made(i) # {}}
    IN  IF /\ ~OverBitrate(src, client)
           /\ \E p \in client.direct : CheckDirectPlayProfile(src, suffix, p, client)
        THEN [kind |-> "direct"]
        ELSE IF able # {} THEN [kind |-> "transcode", ts |-> CHOOSE ts \in made(Min(able)) : TRUE]
        ELSE [kind |-> "none"]

\* what is known of the file: the probe's details if there are any, or else its tags'
SourceStream(r) == IF r.probe # {} THEN (CHOOSE f \in r.probe : TRUE).stream ELSE r.file.tags

-----------------------------------------------------------------------------
(* The legacy stream and download requests *)

\* what an old request stands for
LegacyClient(mf, format, bitRate, playerMax) ==
    LET lowers(b) == b > 0 /\ b < mf.tags.bitrate
        target == IF format # "" THEN format
                  ELSE IF lowers(bitRate) \/ lowers(playerMax) THEN Downsampling ELSE ""
        same   == [containers |-> {mf.suffix}, codecs |-> {mf.tags.codec}, maxChannels |-> 0]
        any    == [containers |-> {}, codecs |-> {}, maxChannels |-> 0]
        cap    == IF target = "" THEN 0 ELSE bitRate
    IN  [maxAudio |-> cap, maxTranscoding |-> cap, limits |-> [c \in {} |-> <<>>],
         direct |-> IF target = "" THEN {any}
                    ELSE IF format = "" \/ format = mf.suffix THEN {same} ELSE {},
         transcoding |-> IF target = "" THEN <<>> ELSE <<[format |-> target, maxChannels |-> 0]>>]

\* limits are lowered, never raised; 0 is none
CapBitrate(client, max) ==
    LET lowered(x) == IF max > 0 /\ (x = 0 \/ max < x) THEN max ELSE x
    IN  [client EXCEPT !.maxAudio = lowered(@), !.maxTranscoding = lowered(@)]

\* the server's format for the player, at the player's bit rate or the format's own
ApplyServerOverride(forced, playerMax) ==
    LET max == IF playerMax > 0 THEN playerMax ELSE Defaults[forced]
    IN  [maxAudio |-> max, maxTranscoding |-> max, limits |-> [c \in {} |-> <<>>],
         direct |-> {[containers |-> {forced}, codecs |-> {forced}, maxChannels |-> 0]},
         transcoding |-> <<[format |-> forced, maxChannels |-> 0]>>]

Legacy(r, format, bitRate, playerMax, forced) ==
    MakeDecision(SourceStream(r), r.file.suffix,
                 IF forced # "" THEN ApplyServerOverride(forced, playerMax)
                 ELSE CapBitrate(LegacyClient(r.file, format, bitRate, playerMax), playerMax))

\* MUTANT of ResolveRequest: no second try with the default format
MutResolveRequest(r, format, bitRate, playerMax, forced) ==
    LET first == Legacy(r, format, bitRate, playerMax, forced)
    IN  IF first.kind = "transcode" THEN first ELSE [kind |-> "direct"]

\* a format that cannot be made gives way to the default one, and that to the file as it is
ResolveRequest(r, format, bitRate, playerMax, forced) ==
    LET first  == Legacy(r, format, bitRate, playerMax, forced)
        second == IF format # "" /\ Downsampling \notin {"", format} /\ first.kind = "none"
                  THEN Legacy(r, Downsampling, bitRate, playerMax, forced) ELSE first
    IN  IF second.kind = "transcode" THEN second ELSE [kind |-> "direct"]

-----------------------------------------------------------------------------
(* The file and its row *)

Init ==
    /\ \E f \in Files : disk = [file |-> f, at |-> 0]
    /\ row = [file |-> disk.file, at |-> 0, probe |-> {}]
    /\ ask = Idle /\ token = NoToken
    /\ crossed = FALSE

\* half a second or more after it was written
Replace(f) ==
    /\ disk.at < MaxTime /\ f # disk.file
    /\ \E t \in (disk.at + 1)..MaxTime : disk' = [file |-> f, at |-> t]
    /\ UNCHANGED <<row, ask, token, crossed>>

\* a file newer than its row is put again, with no probe
Scan ==
    /\ disk.at > row.at
    /\ row' = [file |-> disk.file, at |-> disk.at, probe |-> {}]
    /\ crossed' = (crossed \/ (ask.at = "probed" /\ ask.probe # {disk.file}))
    /\ UNCHANGED <<disk, ask, token>>

-----------------------------------------------------------------------------
(* GetTranscodeDecision *)

ReadRow(client) ==
    /\ ask.at = "idle"
    /\ ask' = [at |-> "read", client |-> client, row |-> row, probe |-> {}]
    /\ UNCHANGED <<disk, row, token, crossed>>

\* CreateTranscodeParams, for a decision that allows the file to be played
Decide(r) ==
    LET decision == MakeDecision(SourceStream(r), r.file.suffix, ask.client)
    IN  token' = IF decision.kind = "none" THEN token
                 ELSE [decision |-> decision, client |-> ask.client, made |-> r.at,
                       ua |-> Second(r.at)]

AlreadyProbed ==
    /\ ask.at = "read" /\ ask.row.probe # {}
    /\ Decide(ask.row)
    /\ ask' = Idle
    /\ UNCHANGED <<disk, row, crossed>>

\* ffprobe reads the file as it is now, or fails and the request with it
ProbeAudioStream ==
    /\ ask.at = "read" /\ ask.row.probe = {}
    /\ ask' \in {[ask EXCEPT !.at = "probed", !.probe = {disk.file}], Idle}
    /\ UNCHANGED <<disk, row, token, crossed>>

\* what was probed is written to the row as it is by then, or fails to be, and decided upon
UpdateProbeData ==
    /\ ask.at = "probed"
    /\ \/ row' = [row EXCEPT !.probe = ask.probe]
       \/ row' = row
    /\ Decide([ask.row EXCEPT !.probe = ask.probe])
    /\ ask' = Idle
    /\ UNCHANGED <<disk, crossed>>

\* MUTANT of ResolvesFromToken: the time of the file is not compared
MutResolvesFromToken == token # NoToken

\* GetTranscodeStream streams with the token's decision if the file has its time
ResolvesFromToken == token # NoToken /\ Second(row.at) = token.ua

Next ==
    \/ \E f \in Files : Replace(f)
    \/ \E client \in Clients : ReadRow(client)
    \/ Scan \/ AlreadyProbed \/ ProbeAudioStream \/ UpdateProbeData

Spec == Init /\ [][Next]_vars

-----------------------------------------------------------------------------
Rows   == [file : Files, at : 0..MaxTime, probe : SUBSET Files]

\* The variables have their types.
TypeOK ==
    /\ disk \in [file : Files, at : 0..MaxTime] /\ row \in Rows
    /\ ask = Idle \/ ask \in [at : {"read", "probed"}, client : Clients, row : Rows,
                              probe : SUBSET Files]
    /\ token = NoToken \/ token.decision.kind \in {"direct", "transcode"}
    /\ crossed \in BOOLEAN

\* the bit rate a transcoded stream has: a lossless one about that of its source
Bitrate(src, ts) == IF ts.bitrate = 0 THEN src.bitrate ELSE ts.bitrate

\* A stream made of src that the client can play: not better than its source, and within
\* every limit, those apart that a later one of the same name took it below, and the
\* rate of opus, which is not the source's.
Fits(src, ts, client) ==
    LET limits == LimitsOf(client, ts.codec)
        last(i) == \A j \in DOMAIN limits : limits[j].name = limits[i].name => j <= i
        value(n) == IF n = "bitrate" THEN Bitrate(src, ts) ELSE ts[n]
        rate    == IF src.codec = "dsd" THEN src.rate \div 8 ELSE src.rate
    IN  /\ Lossless(ts.codec) => Lossless(src.codec)
        /\ client.maxAudio > 0 => Bitrate(src, ts) <= client.maxAudio
        /\ ts.channels <= src.channels
        /\ \E p \in ToSet(client.transcoding) :
              p.format = ts.codec /\ (p.maxChannels > 0 => ts.channels <= p.maxChannels)
        /\ ts.codec # "opus" => ts.rate <= rate
        /\ ts.codec = "mp3" => ts.rate <= 48 /\ ts.channels <= 2
        /\ \A i \in DOMAIN limits :
              LET lim == limits[i]
              IN  /\ last(i) /\ (lim.name = "depth" => ts.depth > 0)
                        => ApplyIntLimitation(lim, value(lim.name)) = {value(lim.name)}
                  /\ lim.comparison = "LessThanEqual" /\ (lim.name = "depth" => ts.depth > 0)
                        => value(lim.name) <= Min(lim.values)

\* A token that is accepted plays the file as it is, once it is scanned, within what the
\* client can play: unless the file was replaced within the second, or a scan came between
\* a probe and its storing.
TokensFit ==
    /\ ResolvesFromToken /\ row.at = disk.at /\ ~crossed
    /\ token.made # row.at => Second(token.made) # Second(row.at)
    => LET src == disk.file.stream
       IN  IF token.decision.kind = "direct"
           THEN MakeDecision(src, disk.file.suffix, token.client).kind = "direct"
           ELSE Fits(src, token.decision.ts, token.client)

\* What is stored as a file's probe is of that file, once it is scanned, unless a scan came
\* between the probe and its storing.
ProbesAreOfTheFile == row.probe # {} /\ row.at = disk.at /\ ~crossed => row.probe = {disk.file}

\* A legacy request is answered within the bit rates of the request and the player, unless
\* the server forces a format: with the file as it is only if its tags or its probe have
\* it within them.  (Requests that come while another is decided find the same rows.)
LegacyIsCapped ==
    ask = Idle => \A format \in LegacyFormats \cup {""}, bitRate, playerMax \in LegacyBitRates :
        LET d    == ResolveRequest(row, format, bitRate, playerMax, "")
            src  == SourceStream(row)
            caps == {bitRate, playerMax} \ {0}
        IN  \A cap \in caps :
              IF d.kind = "transcode" THEN Bitrate(src, d.ts) <= cap
              ELSE Min({src.bitrate, row.file.tags.bitrate}) <= cap

\* A format that the server forces is kept to the player's bit rate, unless it is lossless
\* and the file is sent as it is.
ForcedIsCapped ==
    ask = Idle => \A forced \in LegacyFormats, playerMax \in LegacyBitRates \ {0} :
        LET d   == ResolveRequest(row, "", 0, playerMax, forced)
            src == SourceStream(row)
        IN  forced \in Formats =>
              \/ d.kind = "transcode" /\ Bitrate(src, d.ts) <= playerMax
              \/ d.kind = "direct" /\ (src.bitrate <= playerMax \/ Lossless(forced))
=============================================================================
