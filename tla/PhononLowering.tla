--------------------------- MODULE PhononLowering ---------------------------
(***************************************************************************)
(* Lowering to Spinor: emitRange and the recursion it makes at an if, a    *)
(* for and a call, as a stack of frames.  Calls are inlined, loops         *)
(* unrolled, and the then branch of an if is emitted unconditionally.      *)
(***************************************************************************)
EXTENDS PhononIR

VARIABLES
  module,   \* src, the Phonon module
  frames,   \* activations of emitRange, of loops and of inlined calls
  vmap,     \* Phonon value -> Spinor value
  emitted,  \* the ops of the Spinor module, records as those of Phonon
  errors    \* some diagnostic was reported

loweringVars == <<frames, vmap, emitted, errors>>

Unmapped == 0       \* not in vmap

(* left is the iterations a loop has left, and the call a call frame is    *)
(* for; saved is what vmap held of the parameters before the call.         *)
Frame(kind, at, hi, left, saved) ==
  [kind |-> kind, at |-> at, hi |-> hi, left |-> left, saved |-> saved]

RangeFrame(lo, hi) == Frame("range", lo, hi, 0, << >>)

Lowering(m) ==
  /\ frames' = <<RangeFrame(1, Len(m) + 1)>>
  /\ vmap' = [v \in ValuesOf(m) |-> Unmapped]
  /\ emitted' = << >>
  /\ errors' = FALSE

Top == Last(frames)

(* The frames once the top one has moved on to j.                          *)
MovedTo(j) ==
  Append(Front(frames), Frame(Top.kind, j, Top.hi, Top.left, Top.saved))

At(kinds) == /\ frames # << >>
             /\ Top.kind = "range" /\ Top.at < Top.hi /\ Top.at \in 1 .. Len(module)
             /\ module[Top.at].kind \in kinds

Mapped(values) == [k \in DOMAIN values |-> vmap[values[k]]]

Binding(values, to) ==
  [v \in DOMAIN vmap |->
     IF \E k \in DOMAIN values \cap DOMAIN to : values[k] = v
     THEN to[CHOOSE k \in DOMAIN values \cap DOMAIN to : values[k] = v]
     ELSE vmap[v]]

EmitSpinorOp ==
  /\ At(SpinorKinds)
  /\ LET op  == module[Top.at]
         out == FreshValues(emitted, Results(op))
     IN  /\ emitted' = Append(emitted, Op(op.kind, Mapped(op.in), out, op.n, "", op.qs))
         /\ vmap' = Binding(op.out, out)
         /\ errors' = (errors \/ Unmapped \in Range(Mapped(op.in)))
  /\ frames' = MovedTo(Top.at + 1)

SkipDef ==
  /\ At({"def"})
  /\ frames' = MovedTo(MatchOf(module, DefOf(module, module[Top.at].name)) + 1)
  /\ UNCHANGED <<vmap, emitted, errors>>

SkipMarker ==
  /\ At({"endif", "endfor", "enddef"})
  /\ frames' = MovedTo(Top.at + 1)
  /\ UNCHANGED <<vmap, emitted, errors>>

CallStack == { module[f.left].name : f \in { f \in Range(frames) : f.kind = "call" } }

UnknownCall ==
  /\ At({"call"}) /\ DefOf(module, module[Top.at].name) = 0
  /\ errors' = TRUE
  /\ frames' = MovedTo(Top.at + 1)
  /\ UNCHANGED <<vmap, emitted>>

(* A recursive call is reported, and inlined all the same.                 *)
EnterCall ==
  /\ At({"call"}) /\ DefOf(module, module[Top.at].name) # 0
  /\ LET call      == module[Top.at]
         d         == DefOf(module, call.name)
         params    == module[d].out
         recursive == call.name \in CallStack
     IN  /\ errors' = (errors \/ recursive \/ Unmapped \in Range(Mapped(call.in)))
         /\ vmap' = Binding(params, Mapped(call.in))
         /\ frames' = Append(MovedTo(Top.at + IF recursive THEN 2 ELSE 1),
                             Frame("call", d + 1, MatchOf(module, d), Top.at,
                                   Mapped(params)))
  /\ UNCHANGED emitted

(* Each op of the body is a range of its own.                              *)
CallBody ==
  /\ frames # << >> /\ Top.kind = "call" /\ Top.at < Top.hi
  /\ frames' = Append(MovedTo(Top.at + 1), RangeFrame(Top.at, Top.at + 1))
  /\ UNCHANGED <<vmap, emitted, errors>>

(* Without a return the results are what the parameters are bound to; then *)
(* the parameters are bound as they were.                                  *)
LeaveCall ==
  /\ frames # << >> /\ Top.kind = "call" /\ Top.at = Top.hi
  /\ LET call     == module[Top.left]
         params   == module[DefOf(module, call.name)].out
         returned == Kept(Mapped(params), Nat \ {Unmapped})
     IN  vmap' = [v \in DOMAIN vmap |->
                    IF v \in Range(params)
                    THEN Top.saved[CHOOSE k \in DOMAIN params : params[k] = v]
                    ELSE Binding(call.out, returned)[v]]
  /\ frames' = Front(frames)
  /\ UNCHANGED <<emitted, errors>>

EnterFor ==
  /\ At({"for"})
  /\ LET end == MatchOf(module, Top.at)
     IN  frames' = Append(MovedTo(end + 1),
                          Frame("loop", Top.at + 1, end, module[Top.at].n, << >>))
  /\ UNCHANGED <<vmap, emitted, errors>>

(* Every iteration emits the same body.                                    *)
Iterate ==
  /\ frames # << >> /\ Top.kind = "loop" /\ Top.left > 0
  /\ frames' = Append(Append(Front(frames),
                             Frame("loop", Top.at, Top.hi, Top.left - 1, Top.saved)),
                      RangeFrame(Top.at, Top.hi))
  /\ UNCHANGED <<vmap, emitted, errors>>

LeaveFor ==
  /\ frames # << >> /\ Top.kind = "loop" /\ Top.left = 0
  /\ frames' = Front(frames)
  /\ UNCHANGED <<vmap, emitted, errors>>

(* A slip: the else is emitted as well.                                    *)
WholeBody(i) == RangeFrame(i + 1, MatchOf(module, i))

ThenBody(i) == RangeFrame(i + 1, i + 1 + module[i].n)

EnterIf ==
  /\ At({"if"})
  /\ frames' = Append(MovedTo(MatchOf(module, Top.at) + 1), ThenBody(Top.at))
  /\ UNCHANGED <<vmap, emitted, errors>>

(* The end of a range; past the end of the module an exception ends all.   *)
LeaveRange ==
  /\ frames # << >> /\ Top.kind = "range"
  /\ Top.at >= Top.hi \/ Top.at > Len(module)
  /\ frames' = IF Top.at >= Top.hi THEN Front(frames) ELSE << >>
  /\ errors' = (errors \/ Top.at < Top.hi)
  /\ UNCHANGED <<vmap, emitted>>

LoweringStep ==
  \/ EmitSpinorOp \/ SkipDef \/ SkipMarker
  \/ UnknownCall \/ EnterCall \/ CallBody \/ LeaveCall
  \/ EnterFor \/ Iterate \/ LeaveFor
  \/ EnterIf \/ LeaveRange
=============================================================================
