------------------------------ MODULE MCClusters ------------------------------
(***************************************************************************)
(* Cluster definitions, and the pools of requests that ask most of them,   *)
(* for the runs of Matching.                                               *)
(***************************************************************************)
EXTENDS Naturals, Sequences, TLC

Node(labels, cores, devices) ==
    [labels |-> {<<"member", "true">>} \union labels, cores |-> cores, devices |-> devices]

Device(type, model, unit, space, node, connection) ==
    [type |-> type, model |-> model, unit |-> unit, space |-> space, node |-> node, connection |-> connection]

License(model) == Device("license", model, "file", 0, "none", "network")

\* A space over two nodes, a second space of one device and a node without devices.
Radios == [cluster |-> {License("amarisoft"), License("viavi")},
           nodes |-> ("n1" :> Node({<<"host", "n1">>}, 3,
                          {Device("sdr", "b200", "u1", 1, "n1", "usb"), Device("android", "phone", "s1", 1, "n1", "usb")}))
                  @@ ("n2" :> Node({<<"host", "n2">>}, 5,
                          {Device("sdr", "x300", "u2", 1, "n2", "network"), Device("sdr", "b200", "u3", 2, "n2", "usb")}))
                  @@ ("n3" :> Node({}, 0, {}))]

\* Two accelerators of one model, which hash alike, and a third one.
Accelerators == [cluster |-> {},
                 nodes |-> ("n1" :> Node({}, 7,
                          {Device("accelerator", "acc100", "b1", 1, "n1", "pci"), Device("accelerator", "acc100", "b2", 1, "n1", "pci"),
                           Device("accelerator", "vrb1", "b3", 2, "n1", "pci"), Device("zmq", "zmq", "z1", 3, "n1", "network")}))]

MCInfos == {Radios, Accelerators}

Ask(type, models, dummy) == [type |-> type, models |-> models, dummy |-> dummy]
Share(percentage, rounding) == [percentage |-> percentage, rounding |-> rounding]
Request(name, resources, labels, shares) ==
    [name |-> name, resources |-> resources, labels |-> labels, shares |-> shares, hostNetwork |-> FALSE, backhaul |-> shares # <<>>]

Sdrs == {"b200", "x300"}
AnyLicense == {"amarisoft", "viavi"}

MCPools == {
    \* Two radios and a phone for two pods, next to a licence.
    <<Request("gnb", <<Ask("license", {"amarisoft"}, FALSE), Ask("sdr", Sdrs, FALSE)>>, {}, <<>>),
      Request("ue", <<Ask("sdr", Sdrs, FALSE), Ask("android", {"phone"}, FALSE)>>, {}, <<>>)>>,
    \* A dummy before and after the device it may share, on one host.
    <<Request("gnb", <<Ask("sdr", Sdrs, TRUE), Ask("sdr", {"b200"}, FALSE), Ask("sdr", Sdrs, TRUE)>>, {<<"host", "n2">>}, <<>>)>>,
    \* Two dummies of one phone, and a dummy licence, which is locked all the same.
    <<Request("ue", <<Ask("android", {"phone"}, TRUE), Ask("license", AnyLicense, TRUE), Ask("android", {"phone"}, TRUE)>>, {}, <<>>)>>,
    \* Two licences of any model, with shares of whatever node it is.
    <<Request("core", <<Ask("license", AnyLicense, FALSE), Ask("license", AnyLicense, FALSE)>>, {},
              <<Share(30, "truncate"), Share(70, "round")>>)>>,
    \* Two accelerators and the shares of their node.
    <<Request("du", <<Ask("accelerator", {"acc100", "vrb1"}, FALSE)>>, {}, <<Share(50, "truncate"), Share(50, "round")>>),
      Request("cu", <<Ask("accelerator", {"acc100", "vrb1"}, FALSE)>>, {}, <<>>)>>,
    <<Request("gnb", <<Ask("zmq", {"zmq"}, FALSE)>>, {}, <<Share(15, "truncate"), Share(85, "round")>>),
      Request("ue", <<>>, {}, <<Share(40, "fractional")>>)>> }
=============================================================================
