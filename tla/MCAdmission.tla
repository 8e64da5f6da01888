----------------------------- MODULE MCAdmission -----------------------------
(* Two requests at a time of one user behind one address                    *)
EXTENDS Admission

CONSTANTS r1, r2, u1, ip1, a1, c1

MCRequests == {r1, r2}
MCLimit == <<1, 1, 1>>
MCWindow == <<2, 1, 1>>
MCOldestAge == <<3, 2, 2>>
=============================================================================
