---------------------------- MODULE AnalogConfig ----------------------------
(***************************************************************************)
(* The EP1-AG08A: an analog device with input channels that are sampled    *)
(* and one output, configured through the attributes of an IIO device and  *)
(* through ioctls, and read through a device file or an IIO buffer.        *)
(*                                                                         *)
(* An attribute write reads the whole status of the device, changes one    *)
(* field, checks that the device is stopped and sends the whole            *)
(* configuration back, with no lock around the three commands.  if_type    *)
(* arbitrates between file and buffer, and is checked and then set.        *)
(*                                                                         *)
(* The device holds the bytes of the messages; callers use mHz and mV.     *)
(*                                                                         *)
(* The device stays plugged in: the early returns while onclosing is set   *)
(* (-ESHUTDOWN) are left out here; Lifecycle has the unplug.               *)
(***************************************************************************)
EXTENDS Exchange

CONSTANTS
    Ch,                     \* input channels
    RateModes, RangeModes,  \* what is written to the attributes: rates (mHz),
    WaveModes,              \* <<vmin, vmax>> (mV), waveforms,
    Volts, Freqs,           \* output voltages (mV) and frequencies (mHz)
    Inputs, Outputs         \* configurations that the ioctls are given

ASSUME AnalogAssumption ==
    /\ Volts \subseteq Int /\ Freqs \subseteq Int
    /\ Outputs \subseteq [wave : Int, volt : Int, freq : Int]

VARIABLES
    analog,                 \* the device: its configuration and what is started
    if_type,                \* unique_data->if_type
    file,                   \* the device file of each process
    buffer,                 \* the IIO buffer
    hw_timestamp,           \* priv->hw_timestamp
    call,                   \* the call each process is in the middle of
    sample,                 \* channels of the sample on its way, {} if none
    ring, pushed,           \* channels of the samples in rx_data and of those
                            \* pushed to the IIO buffer
    run,                    \* history: who started sampling which channels,
                            \* while nothing else was running
    overlap                 \* history: two users checked if_type at a time

users == <<if_type, file, buffer, overlap>>
samples == <<sample, ring, pushed>>
analogVars == <<analog, users, hw_timestamp, call, samples, run, calls, faults>>

-----------------------------------------------------------------------------
(* Conversions                                                             *)

(* ep1_ag08a_msg_convert_send_rate_to_value: mHz to the byte of a message  *)
SendRateToValue ==
    [r \in {10000000, 5000000, 2500000, 1250000, 625000, 312500, 156250, 10000,
            1000, 100, 10} |->
        CASE r = 10000000 -> 1 [] r = 5000000 -> 2 [] r = 2500000 -> 3
          [] r = 1250000 -> 4 [] r = 625000 -> 5 [] r = 312500 -> 6
          [] r = 156250 -> 7 [] r = 10000 -> 17 [] r = 1000 -> 18
          [] r = 100 -> 19 [] r = 10 -> 20]

(* ep1_ag08a_msg_convert_send_rate_from_value                              *)
SendRateFromValue ==
    [b \in 1..7 \cup 17..20 |->
        CASE b = 1 -> 10000000 [] b = 2 -> 5000000 [] b = 3 -> 2500000
          [] b = 4 -> 1250000 [] b = 5 -> 625000 [] b = 6 -> 312500
          [] b = 7 -> 156250 [] b = 17 -> 10000 [] b = 18 -> 1000
          [] b = 19 -> 100 [] b = 20 -> 10]

(* ep1_ag08a_msg_convert_input_voltage_to_value: range to byte             *)
InputVoltageToValue ==
    [v \in {<<-10000, 10000>>, <<-5000, 5000>>, <<-2500, 2500>>, <<-1250, 1250>>,
            <<-800, 800>>, <<-400, 400>>, <<-200, 200>>, <<-100, 100>>, <<0, 5000>>} |->
        CASE v = <<-10000, 10000>> -> 0 [] v = <<-5000, 5000>> -> 1
          [] v = <<-2500, 2500>> -> 2 [] v = <<-1250, 1250>> -> 3
          [] v = <<-800, 800>> -> 4 [] v = <<-400, 400>> -> 5
          [] v = <<-200, 200>> -> 6 [] v = <<-100, 100>> -> 7
          [] v = <<0, 5000>> -> 9]

(* ep1_ag08a_msg_convert_input_voltage_from_value                          *)
InputVoltageFromValue ==
    [b \in 0..7 \cup {9} |->
        CASE b = 0 -> <<-10000, 10000>> [] b = 1 -> <<-5000, 5000>>
          [] b = 2 -> <<-2500, 2500>> [] b = 3 -> <<-1250, 1250>>
          [] b = 4 -> <<-800, 800>> [] b = 5 -> <<-400, 400>>
          [] b = 6 -> <<-200, 200>> [] b = 7 -> <<-100, 100>>
          [] b = 9 -> <<0, 5000>>]

(* ep1_ag08a_msg_convert_input_voltage_to_nano_scale                       *)
NanoScale ==
    [b \in 0..7 \cup {9} |->
        CASE b = 0 -> 305185 [] b = 1 -> 152593 [] b = 2 -> 76296 [] b = 3 -> 38148
          [] b = 4 -> 24415 [] b = 5 -> 12207 [] b = 6 -> 6104 [] b = 7 -> 3052
          [] b = 9 -> 76296]

(* The attributes offer values that the device has: the mode tables of     *)
(* ep1_ag08a_iio.c.                                                        *)
ASSUME ModesAssumption ==
    /\ RateModes \subseteq DOMAIN SendRateToValue
    /\ RangeModes \subseteq DOMAIN InputVoltageToValue

(* The byte of the output is in units of 20 mV and 1000 mHz; the quotient  *)
(* is cut towards zero, and wraps.                                         *)
Byte(n, unit) ==
    (IF n >= 0 THEN n \div unit ELSE -((-n) \div unit)) % 256

(* ep1_ag08a_msg_parse_response_get_status                                 *)
ParseStatus(d) ==
    [rate |-> SendRateFromValue[d.rate],
     range |-> [c \in Ch |-> InputVoltageFromValue[d.range[c]]],
     start |-> d.start,
     wave |-> d.wave, volt |-> d.volt * 20, freq |-> d.freq * 1000,
     out |-> d.out]

(* ep1_ag08a_msg_pack_set_analog_input: the configuration has a byte for   *)
(* each value ...                                                          *)
InputIsValid(cfg) ==
    /\ cfg.rate \in DOMAIN SendRateToValue
    /\ \A c \in Ch : cfg.range[c] \in DOMAIN InputVoltageToValue

PackSetAnalogInput(cfg) ==
    [analog EXCEPT !.rate = SendRateToValue[cfg.rate],
                   !.range = [c \in Ch |-> InputVoltageToValue[cfg.range[c]]]]

(* ep1_ag08a_msg_pack_set_analog_output (zero is sent as one unit)         *)
PackSetAnalogOutput(cfg) ==
    [analog EXCEPT !.wave = cfg.wave,
                   !.volt = Byte(IF cfg.volt = 0 THEN 20 ELSE cfg.volt, 20),
                   !.freq = Byte(IF cfg.freq = 0 THEN 1000 ELSE cfg.freq, 1000)]

-----------------------------------------------------------------------------
(* Commands: what ep1_ag08a_get_status returns, ...                        *)
GetStatus == ParseStatus(analog)

(* ... and what the device holds after ep1_ag08a_set_analog_input, ...     *)
SetAnalogInput(o, cfg) == Held(o, PackSetAnalogInput(cfg), analog)

(* ... ep1_ag08a_control_analog_input, ...                                 *)
ControlAnalogInput(o, s) == Held(o, [analog EXCEPT !.start = s], analog)

(* ... ep1_ag08a_set_analog_output ...                                     *)
SetAnalogOutput(o, cfg) == Held(o, PackSetAnalogOutput(cfg), analog)

(* ... and ep1_ag08a_control_analog_output.                                *)
ControlAnalogOutput(o, on) == Held(o, [analog EXCEPT !.out = on], analog)

-----------------------------------------------------------------------------
NotCalling == [pc |-> "idle", cfg |-> << >>, want |-> << >>, quiet |-> TRUE]
NoBuffer == [pc |-> "off", mask |-> {}]
NoRun == [by |-> "none", mask |-> {}]

(* Just probed: ep1_ag08a_init_data, ep1_ag08a_create_iiodev and a device  *)
(* with its factory settings.                                              *)
AnalogInit ==
    /\ ExchangeInit
    /\ analog = [rate |-> 1, range |-> [c \in Ch |-> 0], start |-> {},
                 wave |-> 0, volt |-> 0, freq |-> 0, out |-> FALSE]
    /\ if_type = "NONE"
    /\ file = [p \in Procs |-> "closed"]
    /\ buffer = NoBuffer
    /\ hw_timestamp = TRUE
    /\ call = [p \in Procs |-> NotCalling]
    /\ sample = {} /\ ring = {} /\ pushed = {}
    /\ run = NoRun
    /\ overlap = FALSE

(* p goes on with configuration cfg; want is the attribute and its value.  *)
Calls(p, pc, cfg, want, quiet) ==
    call' = [call EXCEPT ![p] = [pc |-> pc, cfg |-> cfg, want |-> want,
                                 quiet |-> quiet]]

CallReturns(p) == call' = [call EXCEPT ![p] = NotCalling]

(* The call of q when the device becomes new.                              *)
Disturbed(q, new) ==
    IF call[q].pc = "idle" THEN NotCalling
    ELSE [call[q] EXCEPT !.quiet = @ /\ new = analog]

(* The device becomes new, under the other calls, and p returns.           *)
Updates(p, new) ==
    /\ analog' = new
    /\ call' = [q \in Procs |-> IF q = p THEN NotCalling ELSE Disturbed(q, new)]

-----------------------------------------------------------------------------
(* Attributes of the IIO device.  The first command of a write is          *)
(* get_status; when it fails nothing has happened.                         *)

WriteInput(p, want, cfg) ==
    /\ call[p].pc = "idle" /\ NewCall
    /\ Calls(p, "checkin", cfg, want, TRUE)
    /\ UNCHANGED <<analog, users, hw_timestamp, samples, run, faults>>

WriteOutput(p, want, cfg) ==
    /\ call[p].pc = "idle" /\ NewCall
    /\ Calls(p, "checkout", cfg, want, TRUE)
    /\ UNCHANGED <<analog, users, hw_timestamp, samples, run, faults>>

(* Fault: the range is set in a configuration of its own.                  *)
SetInVoltRangeAlone(p, c, v) ==
    WriteInput(p, <<"range", c, v>>,
               [GetStatus EXCEPT
                    !.range = [d \in Ch |-> IF d = c THEN v ELSE <<0, 5000>>]])

(* ep1_ag08a_set_in_volt_range_mode                                        *)
SetInVoltRange(p, c, v) ==
    WriteInput(p, <<"range", c, v>>, [GetStatus EXCEPT !.range[c] = v])

(* ep1_ag08a_set_in_volt_samp_freq_mode                                    *)
SetInVoltSampFreq(p, r) ==
    WriteInput(p, <<"rate", 0, r>>, [GetStatus EXCEPT !.rate = r])

(* ep1_ag08a_set_out_volt_waveform_type_mode                               *)
SetOutVoltWaveform(p, w) ==
    WriteOutput(p, <<"wave", 0, w>>, [GetStatus EXCEPT !.wave = w])

(* ep1_ag08a_write_raw, IIO_CHAN_INFO_RAW and IIO_CHAN_INFO_FREQUENCY ...  *)
WriteRaw(p) ==
    \/ \E v \in Volts :
           WriteOutput(p, <<"volt", 0, v>>, [GetStatus EXCEPT !.volt = v])
    \/ \E f \in Freqs :
           WriteOutput(p, <<"freq", 0, f>>, [GetStatus EXCEPT !.freq = f])

(* ... and IIO_CHAN_INFO_ENABLE: ep1_ag08a_control_device_output           *)
ControlDeviceOutput(p, on, o) ==
    /\ call[p].pc = "idle" /\ NewCall /\ Ends(o)
    /\ Updates(p, ControlAnalogOutput(o, on))
    /\ UNCHANGED <<users, hw_timestamp, samples, run>>

(* ep1_ag08a_set_hw_timestamp_mode                                         *)
SetHwTimestamp(b) ==
    /\ NewCall /\ hw_timestamp # b
    /\ hw_timestamp' = b
    /\ UNCHANGED <<analog, users, call, samples, run, faults>>

(* What the attributes show for device d: ep1_ag08a_get_in_volt_range_mode *)
(* and IIO_CHAN_INFO_SCALE of ep1_ag08a_read_raw, ...                      *)
GetInVoltRange(d, c) == InputVoltageFromValue[d.range[c]]
ReadScale(d, c) == NanoScale[d.range[c]]

(* ... ep1_ag08a_get_in_volt_samp_freq_mode ...                            *)
GetInVoltSampFreq(d) == SendRateFromValue[d.rate]

(* ... ep1_ag08a_get_out_volt_waveform_type_mode ...                       *)
GetOutVoltWaveform(d) == d.wave

(* ... and the output in ep1_ag08a_read_raw.                               *)
ReadRaw(d) == [volt |-> d.volt * 20, freq |-> d.freq * 1000, enable |-> d.out]

-----------------------------------------------------------------------------
(* ep1_ag08a_set_device_input: is the input stopped ...                    *)

(* Fault: the last channel is not looked at.                               *)
IsDeviceInputStartButOne(p) ==
    /\ call[p].pc = "checkin"
    /\ IF analog.start \subseteq {CHOOSE c \in Ch : TRUE}
       THEN call' = [call EXCEPT ![p].pc = "setin"]
       ELSE CallReturns(p)
    /\ UNCHANGED <<analog, users, hw_timestamp, samples, run, calls, faults>>

IsDeviceInputStart(p) ==
    /\ call[p].pc = "checkin"
    /\ IF analog.start = {}
       THEN call' = [call EXCEPT ![p].pc = "setin"]
       ELSE CallReturns(p)
    /\ UNCHANGED <<analog, users, hw_timestamp, samples, run, calls, faults>>

(* ... then set it.                                                        *)
SetDeviceInput(p, o) ==
    /\ call[p].pc = "setin"
    /\ IF InputIsValid(call[p].cfg)
       THEN /\ Ends(o)
            /\ Updates(p, SetAnalogInput(o, call[p].cfg))
       ELSE o = "ack" /\ CallReturns(p) /\ UNCHANGED <<analog, faults>>
    /\ UNCHANGED <<users, hw_timestamp, samples, run, calls>>

(* ep1_ag08a_set_device_output: the same for the output                    *)
IsDeviceOutputStart(p) ==
    /\ call[p].pc = "checkout"
    /\ IF ~analog.out
       THEN call' = [call EXCEPT ![p].pc = "setout"]
       ELSE CallReturns(p)
    /\ UNCHANGED <<analog, users, hw_timestamp, samples, run, calls, faults>>

SetDeviceOutput(p, o) ==
    /\ call[p].pc = "setout" /\ Ends(o)
    /\ Updates(p, SetAnalogOutput(o, call[p].cfg))
    /\ UNCHANGED <<users, hw_timestamp, samples, run, calls>>

(* The status cannot be read: the call fails.                              *)
StatusFails(p) ==
    /\ call[p].pc \in {"checkin", "checkout"} /\ Ends("lost")
    /\ CallReturns(p)
    /\ UNCHANGED <<analog, users, hw_timestamp, samples, run, calls>>

-----------------------------------------------------------------------------
(* The device file: ep1_ag08a_open checks ...                              *)

Claiming ==
    \/ \E p \in Procs : file[p] = "checked"
    \/ buffer.pc \in {"checked", "failed"}

FileOpenCheck(p) ==
    /\ call[p].pc = "idle" /\ file[p] = "closed" /\ if_type = "NONE"
    /\ NewCall
    /\ file' = [file EXCEPT ![p] = "checked"]
    /\ overlap' = (overlap \/ Claiming)
    /\ UNCHANGED <<analog, if_type, buffer, hw_timestamp, call, samples, run, faults>>

(* ... and then sets if_type.                                              *)
FileOpen(p) ==
    /\ file[p] = "checked"
    /\ file' = [file EXCEPT ![p] = "open"]
    /\ if_type' = "FILE"
    /\ UNCHANGED <<analog, buffer, hw_timestamp, call, samples, run, calls, faults,
                   overlap>>

(* Fault: the interface is not given back.                                 *)
FileCloseKeeps(p) ==
    /\ call[p].pc = "idle" /\ file[p] = "open"
    /\ file' = [file EXCEPT ![p] = "closed"]
    /\ UNCHANGED <<analog, if_type, buffer, hw_timestamp, call, samples, run, calls,
                   faults, overlap>>

(* ep1_ag08a_close (the device goes on sampling if it was started)         *)
FileClose(p) ==
    /\ call[p].pc = "idle" /\ file[p] = "open"
    /\ file' = [file EXCEPT ![p] = "closed"]
    /\ if_type' = "NONE"
    /\ UNCHANGED <<analog, buffer, hw_timestamp, call, samples, run, calls, faults,
                   overlap>>

(* ep1_ag08a_ioctl: SET_ANALOG_INPUT, SET_ANALOG_OUTPUT ...                *)
IoctlSet(p) ==
    /\ file[p] = "open"
    /\ \/ \E cfg \in Inputs :
              WriteInput(p, << >>, [GetStatus EXCEPT !.rate = cfg.rate,
                                                     !.range = cfg.range])
       \/ \E cfg \in Outputs :
              WriteOutput(p, << >>, [GetStatus EXCEPT !.wave = cfg.wave,
                                                      !.volt = cfg.volt,
                                                      !.freq = cfg.freq])

(* ... CONTROL_ANALOG_INPUT: the samples of an earlier run are discarded   *)
(* if any channel is started, ...                                          *)

(* Fault: they are not.                                                    *)
IoctlControlInputKeeps(p, s) ==
    /\ file[p] = "open" /\ call[p].pc = "idle" /\ NewCall
    /\ Calls(p, "control", [start |-> s], << >>,
             sample = {} /\ analog.start = {})
    /\ UNCHANGED <<analog, users, hw_timestamp, samples, run, faults>>

IoctlControlInput(p, s) ==
    /\ file[p] = "open" /\ call[p].pc = "idle" /\ NewCall
    /\ Calls(p, "control", [start |-> s], << >>,
             sample = {} /\ analog.start = {})
    /\ ring' = IF s = {} THEN ring ELSE {}
    /\ UNCHANGED <<analog, users, hw_timestamp, sample, pushed, run, faults>>

(* What a start or a stop does to the run.                                 *)
Runs(o, by, s, quiet) ==
    run' = IF o = "ack" /\ s # {} /\ quiet THEN [by |-> by, mask |-> s]
           ELSE IF o \in {"ack", "late"} THEN NoRun ELSE run

(* ... then ep1_ag08a_control_device_input, ...                            *)
ControlDeviceInput(p, o) ==
    /\ call[p].pc = "control" /\ Ends(o)
    /\ LET s == call[p].cfg.start
       IN  /\ Updates(p, ControlAnalogInput(o, s))
           /\ Runs(o, "FILE", s, call[p].quiet)
    /\ UNCHANGED <<users, hw_timestamp, samples, calls>>

(* ... and CONTROL_ANALOG_OUTPUT.                                          *)
IoctlControlOutput(p, on, o) == file[p] = "open" /\ ControlDeviceOutput(p, on, o)

-----------------------------------------------------------------------------
(* The IIO buffer; the IIO core enables and disables one at a time.        *)

(* ep1_ag08a_buffer_preenable checks ...                                   *)
BufferCheck(mask) ==
    /\ buffer.pc = "off" /\ if_type = "NONE" /\ mask # {}
    /\ NewCall
    /\ buffer' = [pc |-> "checked", mask |-> mask]
    /\ overlap' = (overlap \/ Claiming)
    /\ UNCHANGED <<analog, if_type, file, hw_timestamp, call, samples, run, faults>>

(* ... and sets if_type.                                                   *)
BufferPreenable ==
    /\ buffer.pc = "checked"
    /\ buffer' = [buffer EXCEPT !.pc = "claimed"]
    /\ if_type' = "IIO"
    /\ UNCHANGED <<analog, file, hw_timestamp, call, samples, run, calls, faults,
                   overlap>>

(* ep1_ag08a_buffer_postenable: get_status, then start the channels of the *)
(* scan mask; when either fails the interface is given back.               *)
BufferPostenable(o) ==
    /\ buffer.pc = "claimed" /\ Ends(o)
    /\ buffer' = [buffer EXCEPT !.pc = IF o = "ack" THEN "on" ELSE "failed"]
    /\ if_type' = IF o = "ack" THEN if_type ELSE "NONE"
    /\ LET new == ControlAnalogInput(o, buffer.mask)
       IN  /\ analog' = new
           /\ call' = [q \in Procs |-> Disturbed(q, new)]
           /\ Runs(o, "IIO", buffer.mask, sample = {} /\ analog.start = {})
    /\ pushed' = {}
    /\ UNCHANGED <<file, hw_timestamp, sample, ring, calls, overlap>>

(* ep1_ag08a_buffer_predisable: stop_device_input, whose result is ignored *)
BufferPredisable(o) ==
    /\ buffer.pc = "on" /\ Ends(o)
    /\ buffer' = [buffer EXCEPT !.pc = "stopping"]
    /\ LET new == ControlAnalogInput(o, {})
       IN  /\ analog' = new
           /\ call' = [q \in Procs |-> Disturbed(q, new)]
    /\ Runs(o, "IIO", {}, FALSE)
    /\ UNCHANGED <<if_type, file, hw_timestamp, samples, calls, overlap>>

(* ep1_ag08a_buffer_postdisable, which the IIO core also calls after a     *)
(* failed postenable                                                       *)
BufferPostdisable ==
    /\ buffer.pc \in {"stopping", "failed"}
    /\ buffer' = NoBuffer
    /\ if_type' = "NONE"
    /\ UNCHANGED <<analog, file, hw_timestamp, call, samples, run, calls, faults,
                   overlap>>

-----------------------------------------------------------------------------
(* Samples                                                                 *)

(* The device sends a sample of the channels that are started.             *)
DeviceSample ==
    /\ analog.start # {} /\ sample = {}
    /\ sample' = analog.start
    /\ UNCHANGED <<analog, users, hw_timestamp, call, ring, pushed, run, calls, faults>>

(* ep1_ag08a_dispatch_msg, for NotifyAnalogInput                           *)
DispatchAnalog ==
    /\ sample # {}
    /\ sample' = {}
    /\ ring' = IF if_type = "FILE" THEN ring \cup {sample} ELSE ring
    /\ pushed' = IF if_type = "IIO" THEN pushed \cup {sample} ELSE pushed
    /\ UNCHANGED <<analog, users, hw_timestamp, call, run, calls, faults>>

-----------------------------------------------------------------------------
Attributes(p) ==
    \/ \E c \in Ch, v \in RangeModes : SetInVoltRange(p, c, v)
    \/ \E r \in RateModes : SetInVoltSampFreq(p, r)
    \/ \E w \in WaveModes : SetOutVoltWaveform(p, w)
    \/ WriteRaw(p)
    \/ \E on \in BOOLEAN, o \in Outcomes : ControlDeviceOutput(p, on, o)

AnalogFile(p) ==
    \/ FileOpenCheck(p)
    \/ FileOpen(p)
    \/ FileClose(p)
    \/ IoctlSet(p)
    \/ \E s \in SUBSET Ch : IoctlControlInput(p, s)
    \/ \E on \in BOOLEAN, o \in Outcomes : IoctlControlOutput(p, on, o)

Continue(p) ==
    \/ IsDeviceInputStart(p)
    \/ IsDeviceOutputStart(p)
    \/ StatusFails(p)
    \/ \E o \in Outcomes : SetDeviceInput(p, o)
    \/ \E o \in Outcomes : SetDeviceOutput(p, o)
    \/ \E o \in Outcomes : ControlDeviceInput(p, o)

Buffer ==
    \/ \E mask \in SUBSET Ch : BufferCheck(mask)
    \/ BufferPreenable
    \/ \E o \in Outcomes : BufferPostenable(o)
    \/ \E o \in Outcomes : BufferPredisable(o)
    \/ BufferPostdisable

AnalogNext ==
    \/ \E p \in Procs : Attributes(p) \/ AnalogFile(p) \/ Continue(p)
    \/ \E b \in BOOLEAN : SetHwTimestamp(b)
    \/ Buffer
    \/ DeviceSample
    \/ DispatchAnalog

AnalogSpec == AnalogInit /\ [][AnalogNext]_analogVars

-----------------------------------------------------------------------------
(* Properties                                                              *)

AnalogTypeOK ==
    /\ ExchangeTypeOK
    /\ analog \in [rate : DOMAIN SendRateFromValue,
                    range : [Ch -> DOMAIN InputVoltageFromValue],
                    start : SUBSET Ch, wave : 0..255, volt : 0..255,
                    freq : 0..255, out : BOOLEAN]
    /\ if_type \in {"NONE", "FILE", "IIO"}
    /\ file \in [Procs -> {"closed", "checked", "open"}]
    /\ buffer \in [pc : {"off", "checked", "claimed", "on", "stopping", "failed"},
                   mask : SUBSET Ch]
    /\ hw_timestamp \in BOOLEAN
    /\ \A p \in Procs :
           /\ call[p].pc \in {"idle", "checkin", "setin", "checkout", "setout",
                              "control"}
           /\ call[p].quiet \in BOOLEAN
    /\ sample \in SUBSET Ch
    /\ ring \subseteq SUBSET Ch /\ pushed \subseteq SUBSET Ch
    /\ run \in [by : {"none", "FILE", "IIO"}, mask : SUBSET Ch]
    /\ overlap \in BOOLEAN

(* What the attributes of the configuration show.                          *)
Shown(d) ==
    [range |-> [c \in Ch |-> GetInVoltRange(d, c)], rate |-> GetInVoltSampFreq(d),
     wave |-> GetOutVoltWaveform(d), volt |-> ReadRaw(d).volt,
     freq |-> ReadRaw(d).freq]

(* The output as the device can hold it: units of a byte, and a unit for   *)
(* zero.  (What is not zero may still become zero: 1 to 19 mV, 5120 mV.)   *)
Rounded(n, unit) == IF n = 0 THEN unit ELSE Byte(n, unit) * unit

(* What they should show after one of them, named in want, was written.    *)
Written(shown, want) ==
    LET Wanted(name, old) == IF want[1] = name THEN want[3] ELSE old
    IN  CASE want[1] = "range" -> [shown EXCEPT !.range[want[2]] = want[3]]
          [] want[1] = "rate" -> [shown EXCEPT !.rate = want[3]]
          [] OTHER -> [shown EXCEPT !.wave = Wanted("wave", @),
                                    !.volt = Rounded(Wanted("volt", @), 20),
                                    !.freq = Rounded(Wanted("freq", @), 1000)]

Returns(p) == call[p].pc # "idle" /\ call'[p].pc = "idle"

(* An attribute write that nobody disturbs between its three commands, and *)
(* that succeeds or takes effect late, changes the attribute written and   *)
(* no other: what was read from the device is sent back unchanged through  *)
(* both conversions.  (Writes that overlap may undo each other.)           *)
AttributeWriteTakesEffect ==
    [][\A p \in Procs :
          /\ Returns(p) /\ call[p].pc \in {"setin", "setout"}
          /\ call[p].want # << >> /\ call[p].quiet
          /\ analog' # analog \/ faults' = faults
          => /\ Shown(analog') = Written(Shown(analog), call[p].want)
             /\ analog'.start = analog.start /\ analog'.out = analog.out]_analogVars

(* "stop device, then set analog input": the configuration of a running    *)
(* input or output is not changed, unless it was started between the check *)
(* and the command of the very call that changes it.                       *)
ChangedWhileStopped ==
    [][/\ <<analog.rate, analog.range>>' # <<analog.rate, analog.range>> =>
             \/ analog.start = {}
             \/ \E p \in Procs : call[p].pc = "setin" /\ Returns(p) /\ ~call[p].quiet
       /\ <<analog.wave, analog.volt, analog.freq>>'
                # <<analog.wave, analog.volt, analog.freq>> =>
             \/ ~analog.out
             \/ \E p \in Procs : call[p].pc = "setout" /\ Returns(p) /\ ~call[p].quiet
      ]_analogVars

(* The workaround of ep1_ag08a_msg_pack_set_analog_output ("avoid factory  *)
(* default value error"): however the output is set, by whichever way in   *)
(* and for whichever field, zero is never sent for a field that is or was  *)
(* zero.  It is sent, and this is the code's, for a value that is not zero *)
(* but rounds to a byte of zero: 1 to 19 mV, 5120 mV.                      *)
RoundsToZero(n, unit) == n # 0 /\ Byte(n, unit) = 0

NoZeroOutput ==
    [][\A p \in Procs :
          Returns(p) /\ call[p].pc = "setout" /\ analog' # analog =>
              /\ analog'.volt = 0 => RoundsToZero(call[p].cfg.volt, 20)
              /\ analog'.freq = 0 => RoundsToZero(call[p].cfg.freq, 1000)]_analogVars

(* A reader that multiplies a sample by the scale attribute gets voltages   *)
(* that fill the range attribute: the scale (nV) is the width (mV) over     *)
(* the 65534 steps of a sample.  The two are separate tables of the code.   *)
ScaleMatchesRange ==
    \A c \in Ch :
        LET v == GetInVoltRange(analog, c)
        IN  ReadScale(analog, c) \div 10 = ((v[2] - v[1]) * 100000) \div 65534

(* if_type names a user that is there, whatever overlaps: nobody locks the *)
(* device by going away.  As long as no two users check if_type at a time  *)
(* and no file is opened between the two releases of a failed postenable,  *)
(* it names the only user.                                                 *)
BufferInUse == buffer.pc \in {"claimed", "on", "stopping"}
FilesInUse == {p \in Procs : file[p] = "open"}

InterfaceHasUser ==
    /\ if_type = "FILE" => FilesInUse # {}
    /\ if_type = "IIO" => BufferInUse
    /\ ~overlap => /\ FilesInUse # {} => if_type = "FILE"
                   /\ BufferInUse => if_type = "IIO"
                   /\ Cardinality(FilesInUse) <= 1

(* Samples have the layout of the channels that were started last: after a *)
(* start of a stopped device that nobody else controls, a reader of the    *)
(* file, or of the IIO buffer, gets no sample of an earlier run, whose     *)
(* channels it would take for others.                                      *)
SamplesMatchRun ==
    /\ run.by = "FILE" => ring \subseteq {run.mask}
    /\ run.by = "IIO" => pushed \subseteq {run.mask}
=============================================================================
