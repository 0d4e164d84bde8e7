------------------------------ MODULE MCMacFrame ------------------------------
(***************************************************************************)
(* MacFrame and DumpPcap with a frame of every kind the repository writes *)
(* or meets, and octets at the limits: headers that end too early, unknown *)
(* types and modes, and frames as short as their control field.            *)
(***************************************************************************)
EXTENDS DumpPcap

Control(type, compression, dest, src) ==
    [type |-> type, security |-> 0, pending |-> 0, ack |-> 1, compression |-> compression,
     reserved |-> 0, suppression |-> 0, elements |-> 0, dest |-> dest, version |-> 0, src |-> src]

Frame(control, destPan, dest, srcPan, src, payload) ==
    [control |-> control, seq |-> IF control.suppression = 1 THEN <<>> ELSE <<163>>,
     destPan |-> destPan, dest |-> dest, srcPan |-> srcPan, src |-> src, payload |-> payload]

Pan == <<245, 62>>
Wide == <<255, 255>>
Eui == <<113, 39, 255, 254, 52, 134, 139, 2>>
NoSequence == [Control(Data, 1, Short, Short) EXCEPT !.suppression = 1, !.version = 2]

MCBuilt ==
    {Frame(Control(Data, 1, Short, Short), Pan, <<52, 82>>, Pan, <<99, 246>>, <<72, 2>>),
     Frame(Control(Data, 1, Long, Short), Pan, Eui, Pan, <<0, 0>>, <<>>),
     Frame(Control(Data, 1, Short, Short), Wide, Wide, Pan, <<0, 0>>, <<7>>),
     Frame(Control(Data, 0, Short, Long), Wide, Wide, Pan, Eui, <<7>>),
     Frame(Control(Data, 0, None, Short), <<>>, <<>>, Pan, <<0, 0>>, <<7>>),
     Frame(NoSequence, Pan, <<0, 0>>, Pan, <<99, 246>>, <<7>>),
     Frame(Control(Ack, 0, None, None), <<>>, <<>>, <<>>, <<>>, <<>>),
     Frame(Control(Beacon, 0, None, Short), <<>>, <<>>, Pan, <<0, 0>>, <<255, 207>>),
     Frame(Control(Command, 1, Short, Short), Pan, <<0, 0>>, Pan, <<99, 246>>, <<4>>),
     Frame(Control(Command, 1, Short, Short), Pan, <<0, 0>>, Pan, <<99, 246>>, BeaconRequest),
     Frame(Control(Command, 0, Short, None), Wide, Wide, <<>>, <<>>, BeaconRequest),
     Frame(Control(Command, 0, Short, Short), Wide, Wide, Pan, <<0, 0>>, BeaconRequest),
     Frame(Control(Command, 0, Short, Long), Wide, <<0, 0>>, Wide, Eui, <<1, 142>>),
     Frame(Control(5, 1, Short, Short), Pan, <<0, 0>>, Pan, <<99, 246>>, <<7>>)}

MCForeign ==
    {<<2, 0>>, <<2, 1>>, <<1, 0>>,                  \* nothing behind the control field
     <<97, 136, 163, 245, 62, 52>>,                 \* ends in an address
     <<1, 136, 163, 245, 62, 52, 82, 1, 0>>,        \* ends behind the source PAN
     <<4, 0, 163, 1>>, <<97, 68, 163, 1, 2>>,       \* unknown type, reserved modes
     <<67, 200, 163, 1, 2, 3, 4>>}                  \* ends before a long address
    \cup {WithFcs(<<2, 0, 163>>), WithFcs(<<2, 0>>)}   \* payloads that end in an FCS of their own

MCNoise == {1, 128, 255}
===============================================================================
