---------------------------- MODULE MCNwkSecurity ----------------------------
(***************************************************************************)
(* NwkSecurity with headers that have every field that may be absent, the  *)
(* sources a frame may have in either header, levels as sent (none) and as *)
(* computed, payloads from nothing to more than a block, and a frame       *)
(* without security.                                                       *)
(***************************************************************************)
EXTENDS NwkSecurity

CONSTANTS k1, k2, k3

A == Eui64(<<0, 18, 75, 0, 30, 23, 239, 168>>)
B == Eui64(<<0, 23, 136, 1, 12, 113, 60, 2>>)

Control(type, route, multicast, security, sourceRoute, destination, extended) ==
    [type |-> type, version |-> 2, route |-> route, multicast |-> multicast, security |-> security,
     sourceRoute |-> sourceRoute, destination |-> destination, extended |-> extended,
     initiator |-> 0, reserved |-> 0]

Header(control, dst, src, multicast, route) ==
    [control |-> control, destination |-> 27458, source |-> 258, radius |-> 15, sequence |-> 46,
     destinationIeee |-> dst, sourceIeee |-> src, multicastControl |-> multicast, sourceRoute |-> route]

Aux(level, source) ==
    [control |-> [level |-> level, keyId |-> 1, extended |-> IF IsPresent(source) THEN 1 ELSE 0,
                  verified |-> 0, reserved |-> 0],
     counter |-> <<122, 10, 0, 1>>, extendedSource |-> source, keySequence |-> 0]

Aps(mode, type, cluster, profile, asdu) ==
    <<[control |-> [type |-> type, mode |-> mode, reserved |-> 0, security |-> 0, ack |-> 1, extended |-> 0],
       destination |-> 1, cluster |-> cluster, profile |-> profile, source |-> 2, counter |-> 169,
       asdu |-> asdu]>>

Route == <<[index |-> 1, relays |-> <<63801, 5>>]>>
Plain == Header(Control(0, 0, 0, 1, 0, 0, 0), <<>>, <<>>, <<>>, <<>>)

MCFrames ==
    {[nwk |-> Plain, aux |-> Aux(0, A), aps |-> Aps(0, 0, 6, 260, <<1, 87, 1>>), octets |-> <<>>],
     [nwk |-> Header(Control(0, 1, 0, 1, 0, 0, 1), <<>>, A, <<>>, <<>>), aux |-> Aux(0, <<>>),
      aps |-> Aps(2, 1, 19, 0, <<0>>), octets |-> <<>>],
     [nwk |-> Header(Control(0, 2, 1, 1, 1, 1, 1), B, A, <<161>>, Route), aux |-> Aux(5, B),
      aps |-> Aps(3, 3, 0, 257, <<4, 4, 4, 4, 4, 4, 4, 4, 4, 4, 4, 4>>), octets |-> <<>>],
     [nwk |-> Header(Control(1, 0, 0, 1, 1, 0, 0), <<>>, <<>>, <<>>, Route), aux |-> Aux(0, B),
      aps |-> <<>>, octets |-> <<8, 0>>],
     [nwk |-> Header(Control(0, 3, 0, 1, 0, 1, 0), A, <<>>, <<>>, <<>>), aux |-> Aux(0, A),
      aps |-> <<>>, octets |-> <<>>],
     [nwk |-> Header(Control(0, 0, 1, 0, 0, 0, 0), <<>>, <<>>, <<2>>, <<>>), aux |-> <<>>,
      aps |-> Aps(0, 0, 6, 260, <<>>), octets |-> <<>>]}

MCBursts == {{1}, {0, 3, 5}}
MCKeyList == <<k1, k2, k3>>
===============================================================================
