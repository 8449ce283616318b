----------------------------- MODULE Conversions -----------------------------
(***************************************************************************)
(* The client of module Lookups, who turns a node it has reached into a Go   *)
(* value with ToNativeBytes (parser/native_bytes.go).                       *)
(*                                                                          *)
(* Each document comes with its values as trees, which say what they mean.   *)
(* All that Lookups says of its client is true of this one.                  *)
(***************************************************************************)
EXTENDS Lookups, JsonMeaning

(* parser.ToNativeBytes(n.Raw()).  Where brackets in strings lead the scan    *)
(* astray the conversion may not end, so those documents are left out.       *)
Convert ==
    /\ Navigating /\ doc.bracketFree
    /\ answers' = [native |-> ToNativeBytes(Raw(reached))]
    /\ UNCHANGED <<doc, root, reached, target, steps, path>>

Next == LookupNext \/ Convert

Spec == LookupInit /\ [][Next]_lookupVars

-----------------------------------------------------------------------------
(* Properties.                                                               *)

(* Whatever a walk or a lookup of zeronode led to, ToNativeBytes makes of it  *)
(* the Go value the document has there, at every depth: integers exact or as  *)
(* the nearest float, numbers beyond all floats as text, escapes decoded, the *)
(* last of equal keys.  A number with white space behind it is excepted, as  *)
(* the span of a node takes it in.                                           *)
NativeRight ==
    /\ answers # NoAnswer
    /\ root = "FromBytes" /\ steps \subseteq {"key", "walk"}
    /\ doc.blanks = 0 \/ ~ HasNumbers(doc.values[target])
    => answers.native = NativeOf(doc.values[target])
=============================================================================
