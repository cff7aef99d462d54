------------------------------- MODULE MCDrivers -------------------------------
(* Small instances of every driver; the sizes are in the .cfg.             *)
EXTENDS Drivers, Bitwise

L(n, l, t, o) == [nodes |-> n, links |-> l, types |-> t, operations |-> o]
MCLinkConfigs == {L(2, 2, 1, 2), L(2, 3, 2, 1), L(2, 3, 1, 1), L(3, 2, 2, 1), L(3, 1, 2, 2)}

S(t, w, r) == [threads |-> t, writers |-> w, ratio |-> r]
MCShapes == {S(2, 1, 0), S(2, 1, 1), S(2, 0, 1), S(3, 0, 1), S(1, 0, 1)}

P(r, o, s, g) == [rows |-> r, operations |-> o, scan |-> s, groups |-> g, payload |-> 1]
MCSpeedConfigs == {P(4, 2, 2, 3), P(3, 2, 3, 5)}

MCCampaignConfigs ==
  [rows : 1 .. 4, operations : 1 .. 4, ranges : 1 .. 2, mutations : 1 .. 5]
    \cup {[rows |-> 4, operations |-> 3, ranges |-> 2, mutations |-> 11]}
MCWidths == <<1, 2, 8>>

M(r, o, s, l) == [rows |-> r, operations |-> o, scans |-> s, length |-> l, payload |-> 3]
MCLayerConfigs == {M(3, 3, 1, 2), M(4, 2, 1, 4)}
MCExclusiveOr(a, b) == a ^^ b

================================================================================
