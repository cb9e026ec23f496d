------------------------------ MODULE Masking ------------------------------
(***************************************************************************)
(* The two functions that put "***" for sensitive fields: SanitizeInput of *)
(* internal/policy/policy.go makes the input a tool gets, maskSensitive of *)
(* internal/executor/executor.go what the audit and the caller get.  A     *)
(* value is a tree of maps, lists and leaves, as JSON decodes it; what has *)
(* another Go type, the rows of a query for one, is a leaf to both.  Both  *)
(* functions call themselves for what is in a map or a list: a walk keeps  *)
(* the nodes that are still to be gone through, those that came into the   *)
(* result, and those for which "***" did.                                  *)
(***************************************************************************)
EXTENDS Naturals

Root == 0

(* Every node but the root is in the map or the list that is its parent,   *)
(* in a map as the field of the name that is its key.                      *)
IsValue(value) ==
  LET nodes == DOMAIN value.kind
  IN /\ Root \in nodes
     /\ value.kind \in [nodes -> {"map", "list", "leaf"}]
     /\ value.parent \in [nodes \ {Root} -> {n \in nodes : value.kind[n] # "leaf"}]
     /\ value.key \in [nodes \ {Root} -> STRING]

Below(value, n) == {c \in DOMAIN value.parent : value.parent[c] = n}

\* "password" stands for the names that have one of the markers in them.
IsSensitiveField(name) == name = "password"

(* A walk begins at the root, if there is something to go through.         *)
Begin(value) ==
  [open |-> {Root} \ {n \in DOMAIN value.kind : value.kind[n] = "leaf"},
   kept |-> {Root}, masked |-> {}, names |-> {}]

(* One call comes to what is below node n: some of it is masked, and for   *)
(* some of the rest there is a call.                                       *)
Walked(value, walk, n, masked, opened) ==
  [open |-> (walk.open \ {n}) \cup opened,
   kept |-> walk.kept \cup (Below(value, n) \ masked),
   masked |-> walk.masked \cup masked,
   names |-> walk.names \cup {value.key[c] : c \in masked}]

SensitiveBelow(value, n) == {c \in Below(value, n) : IsSensitiveField(value.key[c])}

(* Mutant: a map in a map is left as it is.                                *)
SanitizeInputFlat(value, walk, n) ==
  Walked(value, walk, n, SensitiveBelow(value, n), {})

(* It goes from map to map, and leaves lists as they are.                  *)
SanitizeInput(value, walk, n) ==
  LET masked == SensitiveBelow(value, n)
  IN Walked(value, walk, n, masked,
            {c \in Below(value, n) \ masked : value.kind[c] = "map"})

(* It goes through maps and lists; a list's items have no names.           *)
MaskSensitive(value, walk, n, fields) ==
  LET masked == {c \in Below(value, n) :
                   /\ value.kind[n] = "map"
                   /\ IsSensitiveField(value.key[c]) \/ value.key[c] \in fields}
  IN Walked(value, walk, n, masked,
            {c \in Below(value, n) \ masked : value.kind[c] # "leaf"})
-----------------------------------------------------------------------------
(* Reference: the copy of a value in which "***" is put for every field of *)
(* a sensitive name and nothing else is left out or changed.               *)
IsMaskedCopy(value, walk) ==
  /\ Root \in walk.kept
  /\ \A n \in DOMAIN value.parent :
       LET sensitive == value.kind[value.parent[n]] = "map" /\ IsSensitiveField(value.key[n])
       IN /\ n \in walk.kept <=> value.parent[n] \in walk.kept /\ ~sensitive
          /\ n \in walk.masked <=> value.parent[n] \in walk.kept /\ sensitive
=============================================================================
