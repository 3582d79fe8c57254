------------------------------- MODULE Labels -------------------------------
(***************************************************************************)
(* The label lattice of capguard/provenance.py: integrity falls and        *)
(* confidentiality rises when values flow together.  The sources a label   *)
(* names for the reader of a log are left out.                             *)
(***************************************************************************)
EXTENDS Integers

Web == 0             \* UNTRUSTED_WEB
ToolOutput == 1      \* UNTRUSTED_TOOL
Trusted == 2
Public == 0
Internal == 1
Secret == 2

Label == [trust : Web..Trusted, confidentiality : Public..Secret]

(* Label(): what a value carries that nothing is known against. *)
Plain == [trust |-> Trusted, confidentiality |-> Public]

(* Label.from_trust_str: an unknown name counts as trusted. *)
FromName(name) ==
  [Plain EXCEPT !.trust = CASE name = "untrusted_web" -> Web
                            [] name = "untrusted_tool" -> ToolOutput
                            [] OTHER -> Trusted]

Name(label) == CASE label.trust = Web -> "untrusted_web"
                 [] label.trust = ToolOutput -> "untrusted_tool"
                 [] OTHER -> "trusted"

Combine(a, b) ==
  [trust |-> IF a.trust <= b.trust THEN a.trust ELSE b.trust,
   confidentiality |-> IF a.confidentiality >= b.confidentiality
                       THEN a.confidentiality ELSE b.confidentiality]

(* combine_all, the reduction of a set of labels from Label(). *)
CombineAll(labels) ==
  LET all == labels \cup {Plain}
  IN CHOOSE join \in {Combine(a, b) : a, b \in all} :
       \A l \in all : Combine(join, l) = join

(* a is at least as restrictive as b. *)
Carries(a, b) == Combine(a, b) = a
=============================================================================
