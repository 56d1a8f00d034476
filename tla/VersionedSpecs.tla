--------------------------- MODULE VersionedSpecs ---------------------------
(***************************************************************************)
(* What the store of specs promises its clients (ADR-018 D1, D3; ADR-052   *)
(* D3), without tables, rows or handlers: a spec is a title, a body and a  *)
(* token; the token counts the generations of what the spec says; a seal   *)
(* names one generation.  The body is edited only while the spec is open;  *)
(* a governed spec may be retitled or replaced as a whole, never edited.   *)
(***************************************************************************)
EXTENDS Integers

CONSTANT Specs

VARIABLES
    title,        \* spec -> its title
    body,         \* spec -> its paragraphs: a function on their ids
    token,        \* spec -> how many generations it has had, 0 before the first
    governed,     \* spec -> is it read-only to editors
    seals         \* [id, spec, token]: which generation a checkpoint names

vars == <<title, body, token, governed, seals>>

OnlyAt(s, f, g) == \A x \in Specs \ {s} : g[x] = f[x]

(* The next generation of s, and nothing else. *)
Advance(s) ==
    /\ token' = [token EXCEPT ![s] = @ + 1]
    /\ OnlyAt(s, title, title') /\ OnlyAt(s, body, body')
    /\ UNCHANGED <<governed, seals>>

(* Some paragraphs change, appear or go: one generation, however many. *)
Edit(s) ==
    /\ token[s] > 0 /\ ~governed[s]
    /\ body'[s] # body[s] /\ title' = title
    /\ Advance(s)

Retitle(s) ==
    /\ token[s] > 0
    /\ title'[s] # title[s] /\ body' = body
    /\ Advance(s)

(* The first import, or a later one: no paragraph survives it, and it counts *)
(* even when it brings none.                                                *)
Replace(s) ==
    /\ DOMAIN body'[s] \cap DOMAIN body[s] = {}
    /\ Advance(s)

(* A copy comes into being with its first generation, and goes altogether. *)
Create(s) ==
    /\ token[s] = 0 /\ token' = [token EXCEPT ![s] = 1]
    /\ OnlyAt(s, title, title') /\ OnlyAt(s, body, body')
    /\ UNCHANGED <<governed, seals>>
Delete(s) ==
    /\ token[s] > 0 /\ token' = [token EXCEPT ![s] = 0]
    /\ DOMAIN body'[s] = {}
    /\ OnlyAt(s, title, title') /\ OnlyAt(s, body, body')
    /\ OnlyAt(s, governed, governed')
    /\ UNCHANGED seals

Govern(s) ==
    /\ token[s] > 0 /\ OnlyAt(s, governed, governed')
    /\ UNCHANGED <<title, body, token, seals>>

(* A checkpoint is taken once, and names the generation of that moment. *)
Seal ==
    /\ seals \subseteq seals' /\ seals' # seals
    /\ \A r \in seals' \ seals :
          /\ r.token = token[r.spec] /\ r.token > 0
          /\ \A q \in seals : q.id # r.id
    /\ UNCHANGED <<title, body, token, governed>>

Init ==
    /\ token = [s \in Specs |-> 0]
    /\ governed = [s \in Specs |-> FALSE]
    /\ seals = {}
    /\ \A s \in Specs : DOMAIN body[s] = {}

Next ==
    \/ \E s \in Specs : Edit(s) \/ Retitle(s) \/ Replace(s) \/ Create(s) \/ Delete(s) \/ Govern(s)
    \/ Seal

Spec == Init /\ [][Next]_vars
=============================================================================
