----------------------------- MODULE AlsaDevice -----------------------------
(* What the USB audio HAL knows of a device that comes and goes            *)
(* (alsa_device_profile.c), and the proxy it opens it by                   *)
(* (alsa_device_proxy.c).  The HAL and the devices are external: a device  *)
(* is the bits of its format mask, the rates it takes, and its range of    *)
(* channels; the HAL forgets one that is gone.                             *)
EXTENDS Integers, FiniteSets, SequencesExt

CONSTANTS
  Bits,      \* of the format masks there are
  StdRates,  \* std_sample_rates, in order of preference
  OddRates,  \* others a device may have
  Channels,  \* numbers of channels a device may begin or end with
  MAX_PROFILE_FORMATS, MAX_PROFILE_SAMPLE_RATES

AlsaDeviceAssumption ==
  /\ Bits \subseteq 0 .. 49 /\ Channels \subseteq Nat \ {0}
  /\ OddRates \subseteq Nat \ {0}
  /\ MAX_PROFILE_FORMATS \in Nat \ {0} /\ MAX_PROFILE_SAMPLE_RATES \in Nat \ {0}

(* tinyalsa's formats, as format_byte_size_map has them.                   *)
PCM_FORMAT_INVALID == -1
PCM_FORMAT_S8 == 2
FormatOf(bit) ==  \* pcm_format_value_map
  CASE bit = 0 -> PCM_FORMAT_S8 [] bit = 2 -> 0 [] bit = 6 -> 3
    [] bit = 10 -> 1 [] bit = 32 -> 4 [] OTHER -> PCM_FORMAT_INVALID
ByteSize == <<2, 4, 1, 4, 3>>  \* format_byte_size_map
DEFAULT_SAMPLE_FORMAT == 0
DEFAULT_SAMPLE_RATE == 44100
DEFAULT_CHANNEL_COUNT == 2
StdChannels == <<8, 7, 6, 5, 4, 3, 2, 1>>

RatesOf(s) == {s[i] : i \in DOMAIN s}
NoDevice == <<>>
Devices ==
  {d \in (SUBSET Bits \ {{}}) \X (SUBSET (RatesOf(StdRates) \union OddRates) \ {{}})
            \X Channels \X Channels : d[3] <= d[4]}

VARIABLES
  plugged,  \* the device there is, or NoDevice
  profile, proxy

alsaVars == <<plugged, profile, proxy>>

NoConfig == [format |-> PCM_FORMAT_INVALID, rate |-> 0, channels |-> 0]
ResetProfile(default) ==
  [set |-> FALSE, is_valid |-> FALSE, formats |-> <<>>, sample_rates |-> <<>>,
   channel_counts |-> <<>>, low |-> DEFAULT_CHANNEL_COUNT,
   high |-> DEFAULT_CHANNEL_COUNT, default_config |-> default]
NoProxy == [prepared |-> FALSE, config |-> NoConfig, frame_size |-> 0, open |-> FALSE]

Init ==
  /\ plugged = NoDevice
  /\ profile = ResetProfile(NoConfig)
  /\ proxy = NoProxy
-----------------------------------------------------------------------------
First(s, n) == SubSeq(s, 1, IF n < Len(s) THEN n ELSE Len(s))
Sorted(bits) == SetToSortSeq(bits, <)

(* The first format that is not of 8 bits, whatever it is.                 *)
GetFormatForMask(bits) ==
  LET wide == {b \in bits : b >= 2}
  IN IF wide = {} THEN PCM_FORMAT_INVALID ELSE FormatOf(Min(wide))

(* Room is left for the value that ends each list.                         *)
EnumFormats(bits) ==
  First(SelectSeq([i \in DOMAIN Sorted(bits) |-> FormatOf(Sorted(bits)[i])],
                  LAMBDA f : f \notin {PCM_FORMAT_INVALID, PCM_FORMAT_S8}),
        MAX_PROFILE_FORMATS - 1)

(* Each rate in the device's range is tried out.                           *)
EnumRates(rates) ==
  First(SelectSeq(StdRates, LAMBDA r : r \in rates), MAX_PROFILE_SAMPLE_RATES - 1)

EnumChannels(low, high) ==
  LET counts == SelectSeq(StdChannels, LAMBDA c : c >= low /\ c <= high)
  IN IF counts = <<>> THEN <<8>> ELSE counts

ReadConfig(d) ==
  [format |-> GetFormatForMask(d[1]), rate |-> Min(d[2]), channels |-> d[3]]

(* The device may be gone when its parameters are asked for the second     *)
(* time, or while its rates are tried out: those that are left do not work.*)
ReadDeviceInfo(stillThere, tried) ==
  LET d      == plugged
      config == ReadConfig(d)
      read   == [profile EXCEPT !.default_config = config, !.low = d[3], !.high = d[4]]
  IN /\ profile.set
     /\ plugged # NoDevice
     /\ profile' =
          IF config.format = PCM_FORMAT_INVALID \/ ~ stillThere THEN read
          ELSE [read EXCEPT !.is_valid = TRUE,
                            !.formats = EnumFormats(d[1]),
                            !.channel_counts = EnumChannels(d[3], d[4]),
                            !.sample_rates = First(EnumRates(d[2]), tried)]
     /\ UNCHANGED <<plugged, proxy>>

(* The HAL is told of a device, and sets the card it is on.                *)
Plug(d) ==
  /\ plugged = NoDevice /\ ~ profile.set
  /\ plugged' = d
  /\ profile' = [profile EXCEPT !.set = TRUE]
  /\ UNCHANGED proxy

(* The HAL closes what is open and forgets the device.                     *)
Unplug ==
  /\ plugged # NoDevice
  /\ plugged' = NoDevice
  /\ proxy' = NoProxy
  /\ profile' = ResetProfile(profile.default_config)
-----------------------------------------------------------------------------
Has(s, v) == v \in {s[i] : i \in DOMAIN s}
IsRateStandard(r) == r \in RatesOf(StdRates)

IsRateValid(r) ==
  IF profile.is_valid THEN Has(profile.sample_rates, r) ELSE r = DEFAULT_SAMPLE_RATE
IsFormatValid(f) ==
  IF profile.is_valid THEN Has(profile.formats, f) ELSE f = DEFAULT_SAMPLE_FORMAT
IsChannelCountValid(c) ==
  IF profile.set THEN c >= profile.low /\ c <= profile.high
  ELSE c = DEFAULT_CHANNEL_COUNT

Chosen(config) ==
  LET default == profile.default_config
  IN [format |-> IF config.format # PCM_FORMAT_INVALID /\ IsFormatValid(config.format)
                   THEN config.format ELSE default.format,
      rate |-> IF config.rate # 0 /\ IsRateValid(config.rate)
                 THEN config.rate ELSE default.rate,
      channels |-> IF config.channels # 0 /\ IsChannelCountValid(config.channels)
                     THEN config.channels ELSE default.channels]

(* The frame size is that of the format asked for, "checked earlier".      *)
FrameSize(format, channels) ==
  IF format \in 0 .. Len(ByteSize) - 1 THEN ByteSize[format + 1] * channels ELSE 1

Prepare(config) ==
  /\ profile.is_valid /\ ~ proxy.open
  /\ Has(profile.formats, config.format)
  /\ proxy' = [prepared |-> TRUE, config |-> Chosen(config), open |-> FALSE,
               frame_size |-> FrameSize(config.format, Chosen(config).channels)]
  /\ UNCHANGED <<plugged, profile>>

Accepts(d, config) ==
  /\ \E b \in d[1] : FormatOf(b) = config.format
  /\ config.rate \in d[2]
  /\ config.channels \in d[3] .. d[4]

(* tinyalsa opens the device if it accepts the configuration.              *)
Open ==
  /\ proxy.prepared /\ ~ proxy.open
  /\ proxy' = [proxy EXCEPT !.open = Accepts(plugged, proxy.config)]
  /\ UNCHANGED <<plugged, profile>>

Close ==
  /\ proxy.open
  /\ proxy' = [proxy EXCEPT !.open = FALSE]
  /\ UNCHANGED <<plugged, profile>>

Configs ==
  [format : PCM_FORMAT_INVALID .. Len(ByteSize) - 1,
   rate : RatesOf(StdRates) \union OddRates \union {0},
   channels : Channels \union {0}]

Next ==
  \/ \E d \in Devices : Plug(d)
  \/ Unplug
  \/ \E stillThere \in BOOLEAN, tried \in 0 .. Len(StdRates) :
       ReadDeviceInfo(stillThere, tried)
  \/ \E config \in Configs : Prepare(config)
  \/ Open \/ Close

Spec == Init /\ [][Next]_alsaVars
-----------------------------------------------------------------------------
(* Whatever was asked for, and however much of the device could be read,   *)
(* a proxy prepared for the device that is there can be opened, and counts *)
(* frames of the format it has.                                            *)
ProxiesCanBeOpened ==
  proxy.prepared =>
    /\ Accepts(plugged, proxy.config)
    /\ proxy.frame_size = ByteSize[proxy.config.format + 1] * proxy.config.channels

=============================================================================
