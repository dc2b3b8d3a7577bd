------------------------------ MODULE Products ------------------------------
(***************************************************************************)
(* The settings of the products.  The driver binds a device as the product *)
(* that its descriptor names (the unique functions of apt_usbtrx_main.c),  *)
(* and everything that follows is that product's: the analog device, or    *)
(* one of the CAN devices.  The bounds on calls and faults are common.     *)
(***************************************************************************)
EXTENDS AnalogConfig, CanConfig

VARIABLE product

Product == {"EP1_AG08A", "CAN"}

ProductsInit ==
    /\ AnalogInit /\ CanInit
    /\ product \in Product
    /\ product = "EP1_AG08A" => variant = "AP_CT2A" /\ can.rate = 0

ProductsNext ==
    \/ /\ product = "EP1_AG08A" /\ AnalogNext
       /\ UNCHANGED <<variant, can, max_token, canUsers, net, can_call, wire, can_ring,
                      stats, asked, alone, can_run, ended, product>>
    \/ /\ product = "CAN" /\ CanNext
       /\ UNCHANGED <<analog, users, hw_timestamp, call, samples, run, product>>

ProductsSpec == ProductsInit /\ [][ProductsNext]_<<analogVars, canVars, product>>

-----------------------------------------------------------------------------
(* Properties of whatever product                                          *)

(* if_type names a user that is there, so that nobody locks the device by  *)
(* going away, and the only user unless two of them checked it together.   *)
IfTypeNamesUser == InterfaceHasUser /\ CanInterfaceHasUser

(* A reader gets samples or frames of its own run only, after a start of a *)
(* stopped device that nobody else controls.                               *)
DataOfRun == SamplesMatchRun /\ FramesMatchRun

(* The device, the tx thread and the network interface agree on the        *)
(* settings: max_token is that of the bit rate, and an interface that is   *)
(* up runs with its link settings.                                         *)
SettingsInForce == TokensOfRate /\ NetConfigured

(* What is shown is what the device holds, although packing, parsing and   *)
(* scaling are separate tables: settings, ranges and scales, summaries.    *)
ShownIsHeld == StatusShowsSettings /\ ScaleMatchesRange /\ SummaryOfItsClass

(* A write that nobody disturbs changes what it should and nothing else,   *)
(* and no write sends a zero for a field of the output that is zero.       *)
WritesTakeEffect == AttributeWriteTakesEffect /\ NoZeroOutput
=============================================================================
