------------------------------ MODULE MCProviders ------------------------------
(* Values for TLC of the constants of the providers' parts. *)
EXTENDS Providers, TLC

\* Threads without any exclusion, with keys on three devices; and four threads that
\* share one device.
ThreeDevices ==
    [Thread |-> {"t1", "t2"}, Exclusion |-> "never",
     Device |-> {[bus |-> 1, addr |-> 32], [bus |-> 1, addr |-> 33], [bus |-> 5, addr |-> 32]}]
OneDevice ==
    [Thread |-> {"t1", "t2", "t3", "t4"}, Exclusion |-> "first", Device |-> {[bus |-> 1, addr |-> 32]}]

\* Parameters that are good, of a wrong type, too large, of an unknown curve, alone
\* and together.  OpenSSL passes none to gen_init().
ManyParams ==
    [Key |-> {"k1", "k2"}, Gen |-> {"g1"}, MaxPairs |-> 2, InitParams |-> {<< >>},
     GenParams |->
        { [slot |-> 1, bus |-> 5], [group |-> "P-521"],
          [slot |-> 1, addr |-> Bad, group |-> "P-384"], [bus |-> 5, group |-> "unknown"] },
     ImportParams |->
        { [pub |-> 32, slot |-> 1, bus |-> Bad, addr |-> 289],
          [pub |-> 97, group |-> "secp384r1", slot |-> 257],
          [pub |-> 97, group |-> "P-256"],
          [group |-> "unknown", pub |-> 65], [group |-> "P-384"], [pub |-> Bad] }]

\* A caller that is careful, and one that is not.
TwoContexts ==
    [Ctx |-> {"c1", "c2"}, Md |-> {"m1", "m2"}, Key |-> {"k1", "k2", "x1"}, EcKey |-> {"k1", "k2"},
     Block |-> {"a", "b"}, MaxBlocks |-> 2, Careful |-> TRUE]
ThreeContexts ==
    [Ctx |-> {"c1", "c2", "c3"}, Md |-> {"m1", "m2", "m3"}, Key |-> {"k1", "x1"}, EcKey |-> {"k1"},
     Block |-> {"a"}, MaxBlocks |-> 1, Careful |-> FALSE]

\* Keys, then verification by a careful caller and by one that is not.
KeysOnly ==
    [Key |-> {"k1", "k2"}, Gen |-> {"g1"}, Ctx |-> {"c1"}, Obj |-> {}, MaxPairs |-> 2, Careful |-> FALSE,
     InitParams |-> {<< >>, [addr |-> 13]},
     GenParams |-> {[slot |-> 1, bus |-> 5, addr |-> 13], [slot |-> 257, bus |-> Bad, addr |-> 12]},
     ImportParams |-> {[pub |-> 3, slot |-> 1, addr |-> Bad], [pub |-> Bad]}]
VerifyOnly ==
    [Key |-> {"k1", "k2"}, Gen |-> {}, Ctx |-> {"c1", "c2"}, Obj |-> {"o1", "o2"},
     MaxPairs |-> 1, Careful |-> TRUE, InitParams |-> {<< >>},
     GenParams |-> {}, ImportParams |-> {[pub |-> 1], [pub |-> 2]}]
OneKey ==
    [Key |-> {"k1"}, Gen |-> {"g1"}, Ctx |-> {"c1", "c2"}, Obj |-> {"o1", "o2"},
     MaxPairs |-> 1, Careful |-> FALSE, InitParams |-> {<< >>},
     GenParams |-> {[slot |-> 1, bus |-> 5]}, ImportParams |-> {[pub |-> 2]}]
=============================================================================
