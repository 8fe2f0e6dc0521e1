------------------------- MODULE MCArtifactCustody -------------------------
EXTENDS ArtifactCustody

CONSTANTS a1, a2, a3, c1, c2, deployment, project

\* a1 and a2 commit to the same content, a3 to another one.
MCContentOf == [a \in Attempts |-> IF a = a3 THEN c2 ELSE c1]

MCScopesOf == [a \in Attempts |-> IF a = a1 THEN {deployment} ELSE {deployment, project}]

MCSize == [c \in Contents |-> IF c = c1 THEN 2 ELSE 1]

MCMaximum == [a \in Attempts |-> IF a = a2 THEN 2 ELSE 1]

\* The caller of a3 never comes back with its bytes.
MCMaxPuts == [a \in Attempts |-> CASE a = a1 -> 2 [] a = a2 -> 1 [] a = a3 -> 0]

\* The deployment has no room for both contents.
MCLimit == [s \in Scopes |-> 2]
=============================================================================
