----------------------------- MODULE WorldCell -----------------------------
(***************************************************************************)
(* The physical.world cell of crates/quilt-polyformalism: a program that   *)
(* is proposed, executed, rendered, verified against an observation and    *)
(* refined.  A program is the sequence of its proposed text and the hints  *)
(* appended to it; what the stub interpreter computes from it is Sim.      *)
(***************************************************************************)
EXTENDS Integers, Sequences

CONSTANTS Text,        \* program texts proposed
          Hint,        \* hints appended
          Reads,       \* argument lists of execute, << >> among them
          Sim(_, _),   \* the value a program and its reads hash to
          Observed,    \* values observed
          Tolerance,   \* tolerances
          MaxChanges   \* bound on each operation's counter, proposals and refinements together

ASSUME WorldAssumption == << >> \in Reads /\ MaxChanges \in Nat

VARIABLES world,    \* the WorldCell
          quantity  \* the last Quantity handed out, with the program it is of

worldVars == << world, quantity >>

NoQuantity == [value |-> 0, verified |-> FALSE, code |-> << >>]

\* FNV-1a of the text, spread over 32 bytes; new() has zeroes instead.
HashProgram(code) == << "fnv", code >>
ZeroHash == << "zero" >>

NewWorld ==
  [code |-> << >>, stateHash |-> ZeroHash, prevHash |-> ZeroHash,
   verified |-> FALSE, n |-> [op \in {"propose", "execute", "render", "verify",
                                      "refine"} |-> 0]]

\* Mutant: the flag survives a change of the program.
WithCodeVerified(w, code, op) ==
  [w EXCEPT !.prevHash = w.stateHash, !.stateHash = HashProgram(code),
            !.code = code, !.n[op] = @ + 1]

\* What propose and refine do to the cell.
WithCode(w, code, op) ==
  [w EXCEPT !.prevHash = w.stateHash, !.stateHash = HashProgram(code),
            !.code = code, !.verified = FALSE, !.n[op] = @ + 1]

Execute(w, reads) ==
  [value |-> Sim(w.code, reads), verified |-> w.verified, code |-> w.code]

Within(value, observed, tolerance) ==
  value - observed >= - tolerance /\ value - observed <= tolerance

-----------------------------------------------------------------------------
WorldInit ==
  /\ world = NewWorld
  /\ quantity = NoQuantity

Changed(code, op) ==
  /\ world.n["propose"] + world.n["refine"] < MaxChanges
  /\ world' = WithCode(world, code, op)
  /\ UNCHANGED quantity

Propose(text) == Changed(<< text >>, "propose")

Refine(hint) == Changed(Append(world.code, hint), "refine")

ExecuteCounted(reads) ==
  /\ world.n["execute"] < MaxChanges
  /\ quantity' = Execute(world, reads)
  /\ world' = [world EXCEPT !.n["execute"] = @ + 1]

Render ==
  /\ world.n["render"] < MaxChanges
  /\ world' = [world EXCEPT !.n["render"] = @ + 1]
  /\ UNCHANGED quantity

\* verify executes without reads.
Verify(observed, tolerance) ==
  /\ world.n["verify"] < MaxChanges
  /\ world' = [world EXCEPT
                 !.verified = Within(Execute(world, << >>).value, observed, tolerance),
                 !.n["verify"] = @ + 1]
  /\ UNCHANGED quantity

WorldNext ==
  \/ \E t \in Text : Propose(t)
  \/ \E h \in Hint : Refine(h)
  \/ \E r \in Reads : ExecuteCounted(r)
  \/ Render
  \/ \E o \in Observed, t \in Tolerance : Verify(o, t)

WorldSpec == WorldInit /\ [][WorldNext]_worldVars

-----------------------------------------------------------------------------
(***************************************************************************)
(* Properties                                                              *)
(***************************************************************************)

\* A cell, or a quantity it handed out, is called verified only when the very
\* program it is of comes, without reads, within the widest tolerance of some
\* observation: no change of the program leaves the flag of the one before
\* (WorldCell::propose, refine, verify).
VerifiedIsOfThisCode ==
  LET Matches(code) == \E o \in Observed, t \in Tolerance :
                         Within(Sim(code, << >>), o, t)
  IN  /\ world.verified => Matches(world.code)
      /\ quantity.verified => Matches(quantity.code)
=============================================================================
