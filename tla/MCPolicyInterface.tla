-------------------------- MODULE MCPolicyInterface --------------------------
(***************************************************************************)
(* Instance of PolicyInterface for TLC: three terms, three joints, and     *)
(* models whose metadata is right, or wrong in one of its widths.          *)
(***************************************************************************)
EXTENDS PolicyInterface

MCTerms == {"joint_vel", "target_speed", "decoder_joint_vel"}
MCDecoderTerms == {"decoder_joint_vel"}
MCSize == [t \in MCTerms |-> IF t = "joint_vel" THEN 2 ELSE 1]
MCJointNames == {"hip", "knee", "ankle"}
MCModelOrder == <<"knee", "ankle", "hip">>

Widths(names) == [i \in DOMAIN names |-> MCSize[names[i]]]
DecoderWidth(names) ==
  SumOf([i \in DOMAIN names |-> IF names[i] \in MCDecoderTerms THEN MCSize[names[i]] ELSE 0])
ActorWidth(names) == SumOf(Widths(names)) - DecoderWidth(names)

V2 == <<"joint_vel", "target_speed", "decoder_joint_vel">>
Swapped == <<"target_speed", "joint_vel", "decoder_joint_vel">>
Interleaved == <<"joint_vel", "decoder_joint_vel", "target_speed">>
ActorOnly == <<"joint_vel", "target_speed">>
DecoderOnly == <<"decoder_joint_vel">>

PolicyOrder == <<"hip", "knee", "ankle">>

\* Metadata as the exporter writes it; a width of the actor or decoder may be
\* left to the controller.
TrueModel(names, history, declared) ==
  [names |-> names, dims |-> Widths(names),
   actorDim |-> declared * ActorWidth(names) * history, history |-> history,
   decoderDim |-> declared * DecoderWidth(names),
   obsInput |-> ActorWidth(names) * history + DecoderWidth(names),
   joints |-> PolicyOrder, defaults |-> 3, scales |-> 3, latentDim |-> 2,
   actions |-> 3, latent |-> 2]

TrueModels ==
  {TrueModel(names, history, declared) :
     names \in {V2, Swapped, Interleaved, ActorOnly, DecoderOnly}, history \in {1, 2}, declared \in {0, 1}}

\* Something is wrong in the metadata, or in the width of the obs input.
Good == TrueModel(V2, 2, 1)
OtherModels ==
  {[Good EXCEPT !.dims = dims] : dims \in {<<1, 2, 1>>, <<1, 1, 2>>, <<2, 1>>}}
  \cup {[Good EXCEPT !.actorDim = dim] : dim \in {4, 7}}
  \cup {[Good EXCEPT !.decoderDim = 2], [Good EXCEPT !.history = 0],
        [Good EXCEPT !.history = 4]}
  \cup {[Good EXCEPT !.obsInput = width] : width \in {6, 8}}
  \cup {[Good EXCEPT !.joints = names] : names \in {<<"hip", "hip", "knee">>, <<"hip", "knee">>}}
  \cup {[Good EXCEPT !.names = <<>>]}
  \cup {[Good EXCEPT !.defaults = 2], [Good EXCEPT !.scales = 4]}
  \cup {[Good EXCEPT !.latentDim = dim] : dim \in {0, 3}}
  \cup {[Good EXCEPT !.actions = 2]}

MCModels == TrueModels \cup OtherModels

HardRanges ==
  [j \in MCJointNames |-> IF j = "hip" THEN <<-4, 4>>
                          ELSE IF j = "knee" THEN <<4, 12>> ELSE <<0, 0>>]
ParamRanges == << <<0, 8>>, <<-8, 0>>, <<0, 0>> >>

Setup(terms, order, params, clipTarget) ==
  [managed |-> terms, controlOrder |-> order, paramLimits |-> params,
   hardLimits |-> HardRanges, clipTarget |-> clipTarget]

Rotated == <<"knee", "ankle", "hip">>

\* Terms in another order than in the metadata, with the joints in one order;
\* joints in other orders, or one missing, with each source of limits.
MCSetups ==
  {Setup(terms, PolicyOrder, <<>>, TRUE) :
     terms \in {V2, Swapped, Interleaved, ActorOnly, DecoderOnly}}
  \cup {Setup(V2, order, <<>>, TRUE) :
          order \in {Rotated, <<"knee", "hip", "ankle">>, <<"ankle", "hip">>}}
  \cup {Setup(V2, Rotated, params, TRUE) : params \in {ParamRanges, << <<0, 8>> >>}}
  \cup {Setup(V2, Rotated, ParamRanges, FALSE)}

MCRawTargets == {-9, 9}

ASSUME InstanceTermsOnce == TermsOnce
=============================================================================
