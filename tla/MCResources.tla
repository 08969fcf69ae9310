----------------------------- MODULE MCResources -----------------------------
(***************************************************************************)
(* Values of the constants of Resources for TLC.                           *)
(***************************************************************************)
EXTENDS Resources, TLC

CONSTANTS x1, x2, r1, r2, r3, r4, alice, bob, anonymous

\* four transcodes, one of an anonymous user
UserOf == r1 :> alice @@ r2 :> alice @@ r3 :> bob @@ r4 :> anonymous

\* a lossy file, a lossless one, one whose tags are wrong about its codec, and a DSD
Details(codec, bitrate, rate, depth, channels) ==
    [codec |-> codec, bitrate |-> bitrate, rate |-> rate, depth |-> depth, channels |-> channels]
Tagged(suffix, details) == [suffix |-> suffix, tags |-> details, stream |-> details]
Mp3 == Tagged("mp3", Details("mp3", 320, 44, 0, 2))
Recordings ==
    {Mp3, Tagged("flac", Details("flac", 900, 96, 24, 6)),
     [suffix |-> "m4a", tags |-> Details("aac", 256, 44, 0, 2),
                        stream |-> Details("alac", 1000, 96, 24, 2)],
     Tagged("dsf", Details("dsd", 2800, 2822, 1, 2))}

\* clients with every kind of limitation, some of which cannot be met
Limitation(name, comparison, values) ==
    [name |-> name, comparison |-> comparison, values |-> values, required |-> name # "depth"]
To(format, maxChannels) == [format |-> format, maxChannels |-> maxChannels]
Directly(maxChannels) == [containers |-> {}, codecs |-> {}, maxChannels |-> maxChannels]
Apps ==
    {[maxAudio |-> 0, maxTranscoding |-> 0, direct |-> {Directly(2)},
      transcoding |-> <<To("flac", 2), To("mp3", 0)>>,
      limits |-> ("flac" :> <<Limitation("rate", "LessThanEqual", {48}),
                              Limitation("depth", "Equals", {16, 24})>>)],
     [maxAudio |-> 320, maxTranscoding |-> 192,
      direct |-> {[containers |-> {"mp3"}, codecs |-> {"mp3"}, maxChannels |-> 0]},
      transcoding |-> <<To("flac", 0), To("opus", 2), To("mp3", 1)>>,
      limits |-> ("opus" :> <<Limitation("bitrate", "NotEquals", {192})>> @@
                  "mp3" :> <<Limitation("bitrate", "GreaterThanEqual", {128}),
                             Limitation("bitrate", "Equals", {96, 160})>>)],
     [maxAudio |-> 128, maxTranscoding |-> 320, direct |-> {Directly(0)},
      transcoding |-> <<To("mp3", 0)>>,
      limits |-> ("mp3" :> <<Limitation("rate", "LessThanEqual", {44}),
                             Limitation("channels", "LessThanEqual", {1})>>)]}

BitRates == "mp3" :> 192 @@ "opus" :> 128 @@ "aac" :> 256 @@ "flac" :> 0

\* the two clients, calls, operations, open files, tracks or gateways of the component
\* that runs are alike
Alike == Permutations({x1, x2})
=============================================================================
