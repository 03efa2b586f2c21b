---------------------------- MODULE MCDevicePage ----------------------------
(***************************************************************************)
(* A unit that reports every five seconds, registered or yet to be, of a    *)
(* model with an old version and a newer one that may be published or      *)
(* withdrawn meanwhile.                                                    *)
(***************************************************************************)
EXTENDS DevicePage

CONSTANTS alice, M, image1, image2, sig, unit

Release(version, image, active) ==
    [owner |-> alice, model |-> M, version |-> version, image |-> image,
     signature |-> sig, active |-> active]

MCVersions == {<<1, 0>>, <<1, 1>>}
MCReleases == {Release(<<1, 1>>, image2, TRUE)}
MCFirmware == {<<Release(<<1, 0>>, image1, TRUE)>>}

MCTold == {<<1, 1>>, Blank}

MCModel == [d \in {unit} |-> M]
MCInterval == [d \in {unit} |-> 5]
MCRows == [{unit} -> {[version |-> <<1, 0>>, seen |-> 0, enabled |-> TRUE], NoRow}]
=============================================================================
