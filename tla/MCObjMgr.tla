------------------------------ MODULE MCObjMgr ------------------------------
(***************************************************************************)
(* Instances of ObjMgr for TLC: psoc soc, pdev dev, vdev v, BSS peer b and *)
(* the peers p and r of two stations.                                      *)
(***************************************************************************)
EXTENDS ObjMgr

CONSTANTS soc, dev, v, b, p, r, c1, c2

MCKind == [o \in Obj |-> CASE o = soc -> "psoc" [] o = dev -> "pdev" [] o = v -> "vdev"
                           [] OTHER -> "peer"]
MCParent == [o \in Obj |-> CASE o = soc -> NoObj [] o = dev -> soc [] o = v -> dev [] OTHER -> v]
MCRegistered == [o \in Obj |-> IF o = r THEN Comp ELSE {}]
MCLimit == [k \in Kinds |-> Cardinality(Obj)]
=============================================================================
