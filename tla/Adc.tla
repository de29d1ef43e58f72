-------------------------------- MODULE Adc ---------------------------------
(***************************************************************************)
(* Adc (adc.h, adc.cc): several Adc objects, one for each channel, share   *)
(* the converter ADC1.  One thread calls them; the converter, which is in  *)
(* continuous mode, converts between its steps.  Objects are always in the *)
(* single-sample mode that the constructor sets.                           *)
(*                                                                         *)
(* HAL calls are modelled by what the code relies on; with HalMayFail, any *)
(* of them may return an error that leaves the converter as it was.  A     *)
(* value is represented by the channel that it is a sample of.             *)
(***************************************************************************)
CONSTANTS Adcs,        \* the objects, and the channels they select
          HalMayFail,  \* whether HAL calls may return an error
          None

ASSUME AdcAssumption == None \notin Adcs /\ HalMayFail \in BOOLEAN

VARIABLES
  initialized,  \* [Adcs -> BOOLEAN]: initialized_
  adc_active,   \* [Adcs -> BOOLEAN]: adc_active_
  pc,           \* where the thread is inside Read()
  reader,       \* the object whose Read() is in progress
  fresh,        \* history: that Read() has started a conversion of its own
  reading,      \* what the last Read() returns: its object, value and error
  channel,      \* ADC1: the channel it is configured for
  converting,   \* ADC1: it is running
  eoc,          \* ADC1: the end-of-conversion flag
  data          \* ADC1: the channel whose sample is in the data register

adc1 == <<channel, converting, eoc, data>>
vars == <<initialized, adc_active, pc, reader, fresh, reading,
          channel, converting, eoc, data>>

Channels == Adcs \cup {None}

TypeOK ==
  /\ initialized \in [Adcs -> BOOLEAN]
  /\ adc_active \in [Adcs -> BOOLEAN]
  /\ pc \in {"idle", "configure", "start", "poll", "stop"}
  /\ reader \in Channels
  /\ pc # "idle" => reader # None
  /\ {fresh, converting, eoc} \subseteq BOOLEAN
  /\ channel \in Channels
  /\ data \in Channels
  /\ reading \in [of : Channels, value : Channels, ok : BOOLEAN]
  /\ reading.ok => reading.value # None

HalOk == {TRUE} \cup {ok \in {FALSE} : HalMayFail}

NoReading == [of |-> None, value |-> None, ok |-> FALSE]

Init ==
  /\ initialized = [a \in Adcs |-> FALSE]
  /\ adc_active = [a \in Adcs |-> FALSE]
  /\ pc = "idle"
  /\ reader = None
  /\ fresh = FALSE
  /\ reading = NoReading
  /\ channel = None
  /\ converting = FALSE
  /\ eoc = FALSE
  /\ data = None
-----------------------------------------------------------------------------
(* Initialize, Start and Stop. *)

\* ConfigureAdc, at the end of Initialize, may fail after ConfigurePins did
\* not; then, and if the pins are wrong, nothing that matters here changes.
Initialize(a) ==
  /\ pc = "idle"
  /\ ~initialized[a]
  /\ initialized' = [initialized EXCEPT ![a] = TRUE]
  /\ channel' = a
  /\ UNCHANGED <<adc_active, pc, reader, fresh, reading, converting, eoc, data>>

\* HAL_ADC_Start forgets earlier conversions and starts ADC1.
HalStart(ok) ==
  IF ok THEN converting' = TRUE /\ eoc' = FALSE ELSE UNCHANGED <<converting, eoc>>

Starts(a, ok) ==
  IF adc_active[a]
  THEN UNCHANGED <<adc_active, converting, eoc>>
  ELSE /\ HalStart(ok)
       /\ adc_active' = [adc_active EXCEPT ![a] = ok]

ActiveNever(ok) == FALSE        \* fault: the flag cleared before the error is seen
ActiveAfterStop(ok) == ~ok

Stops(a, ok) ==
  IF adc_active[a]
  THEN /\ converting' = (converting /\ ~ok)
       /\ adc_active' = [adc_active EXCEPT ![a] = ActiveAfterStop(ok)]
  ELSE UNCHANGED <<adc_active, converting>>

\* Neither checks initialized_: the caller must have initialized the object.
Start(a) ==
  /\ pc = "idle"
  /\ initialized[a]
  /\ \E ok \in HalOk : Starts(a, ok)
  /\ UNCHANGED <<initialized, pc, reader, fresh, reading, channel, data>>

Stop(a) ==
  /\ pc = "idle"
  /\ initialized[a]
  /\ \E ok \in HalOk : Stops(a, ok)
  /\ UNCHANGED <<initialized, pc, reader, fresh, reading, channel, eoc, data>>
-----------------------------------------------------------------------------
(* Read. *)

Read(a) ==
  /\ pc = "idle"
  /\ initialized[a]
  /\ pc' = "configure"
  /\ reader' = a
  /\ fresh' = FALSE
  /\ UNCHANGED <<initialized, adc_active, reading, adc1>>

ChannelKept(a) == channel       \* fault: no ConfigureAdc between two reads
ChannelOf(a) == a

\* ConfigureAdc: HAL_ADC_Init and HAL_ADC_ConfigChannel.
ReadConfigures ==
  /\ pc = "configure"
  /\ channel' = ChannelOf(reader)
  /\ pc' = "start"
  /\ UNCHANGED <<initialized, adc_active, reader, fresh, reading,
                 converting, eoc, data>>

ReadFails ==
  /\ pc = "configure"
  /\ FALSE \in HalOk
  /\ reading' = [NoReading EXCEPT !.of = reader]
  /\ pc' = "idle"
  /\ UNCHANGED <<initialized, adc_active, reader, fresh, adc1>>

\* Read ignores the error that Start() returns.
ReadStarts ==
  /\ pc = "start"
  /\ \E ok \in HalOk :
       /\ Starts(reader, ok)
       /\ fresh' = (ok /\ ~adc_active[reader])
  /\ pc' = "poll"
  /\ UNCHANGED <<initialized, reader, reading, channel, data>>

ErrorLost(polled) == TRUE       \* fault: HAL_ADC_PollForConversion's error dropped
NoError(polled) == polled

\* HAL_ADC_PollForConversion waits for the flag, half a second at most, and
\* HAL_ADC_GetValue reads the data register, whose value counts without error.
ReadPolls ==
  /\ pc = "poll"
  /\ eoc \/ ~converting
  /\ reading' = [of |-> reader, value |-> data, ok |-> NoError(eoc)]
  /\ eoc' = FALSE
  /\ pc' = "stop"
  /\ UNCHANGED <<initialized, adc_active, reader, fresh, channel, converting, data>>

ReadReturns ==
  /\ pc = "stop"
  /\ \E ok \in HalOk : Stops(reader, ok)
  /\ pc' = "idle"
  /\ UNCHANGED <<initialized, reader, fresh, reading, channel, eoc, data>>
-----------------------------------------------------------------------------
\* A conversion ends, and the next one begins.
Convert ==
  /\ converting
  /\ eoc' = TRUE
  /\ data' = channel
  /\ UNCHANGED <<initialized, adc_active, pc, reader, fresh, reading,
                 channel, converting>>

Thread == \/ \E a \in Adcs : Initialize(a) \/ Start(a) \/ Stop(a) \/ Read(a)
          \/ ReadConfigures \/ ReadFails \/ ReadStarts \/ ReadPolls \/ ReadReturns

Next == Thread \/ Convert

Spec == Init /\ [][Next]_vars
-----------------------------------------------------------------------------
(* Properties. *)

Own(r) == r.value = r.of

\* A Read() whose own Start() worked returns a sample of its own channel, or
\* an error, whatever the other objects did to the shared converter before.
FreshReadingIsOwn == reading.ok /\ fresh /\ pc \in {"stop", "idle"} => Own(reading)

\* When no object takes itself for active, the converter has been stopped.
ConvertingIsKnown == converting => \E a \in Adcs : adc_active[a]

\* Every Read() returns its own channel: ADC1 is configured again for each.
ReadingIsOwn == reading.ok => Own(reading)
=============================================================================
