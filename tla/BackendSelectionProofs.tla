------------------------- MODULE BackendSelectionProofs -------------------------
(***************************************************************************)
(* Theorems about BackendSelection, for every file, every environment and  *)
(* every order of runs and changes of settings, whatever values stand for  *)
(* an empty "auth:", a missing block and a single template id.             *)
(***************************************************************************)
EXTENDS BackendSelection, FiniteSetTheorems, TLAPS

(* A server that is up is what load_config and _build_pipeline make of the *)
(* settings it was started with, and one that failed is so for them: a     *)
(* setting is changed only between two runs.                               *)
StartedInv ==
    /\ state = "up" => Loads(file, env) /\ server = Settings(file, env)
    /\ state = "failed" => ~ Loads(file, env)

IInv == TypeOK /\ StartedInv

-----------------------------------------------------------------------------
(* The choice of load_config.                                              *)

LEMMA AvailableIsUsables == Available(file, env) = Usables
  BY DEF Available, Usables, Usable

LEMMA UsablesAreTypes == Usables \subseteq Type
  BY DEF Usables

(* Of two types there is none, one or both.                                *)
LEMMA OneOrBoth ==
    ASSUME NEW S \in SUBSET Type, S # {}
    PROVE  /\ Cardinality(S) = 1 <=> S # Type
           /\ Cardinality(S) # 1 <=> S = Type
           /\ Cardinality(S) = 1 => (CHOOSE t \in S : TRUE) \in S
  <1>1. S = {"tvm"} \/ S = {"sc"} \/ S = Type
    BY DEF Type
  <1>2. Cardinality({"tvm"}) = 1 /\ Cardinality({"sc"}) = 1
    BY FS_Singleton
  <1>3. IsFiniteSet({"tvm"}) /\ Type = {"tvm"} \cup {"sc"}
    BY FS_Singleton DEF Type
  <1>4. Cardinality(Type) = 2
    BY <1>2, <1>3, FS_AddElement
  <1>5. Type # {"tvm"} /\ Type # {"sc"}
    BY DEF Type
  <1>6. (CHOOSE t \in S : TRUE) \in S
    OBVIOUS
  <1>7. QED
    BY <1>1, <1>2, <1>4, <1>5, <1>6

(* Two usable types come from two usable blocks.                           *)
LEMMA BothBlocksNeeded ==
    ASSUME Usables = Type
    PROVE  Usable(file.backend, env)
  <1>1. PICK b \in Blocks(file) : Usable(b, env) /\ b.type = "tvm"
    BY DEF Usables, Type
  <1>2. PICK c \in Blocks(file) : Usable(c, env) /\ c.type = "sc"
    BY DEF Usables, Type
  <1>3. QED
    BY <1>1, <1>2 DEF Blocks

(* The primary backend is one that can be used: the override's when that   *)
(* loads, the only one, or, of two, that of the first block, which cannot  *)
(* both come from the other one.                                           *)
LEMMA PrimaryIsUsable ==
    ASSUME TypeOK, BackendsLoad(file, env)
    PROVE  PrimaryType(file, env) \in Usables
  <1>1. Usables # {} /\ Usables \in SUBSET Type
    BY AvailableIsUsables, UsablesAreTypes DEF BackendsLoad
  <1>2. CASE Overridden(env)
    BY <1>2, AvailableIsUsables DEF BackendsLoad, PrimaryType
  <1>3. CASE ~ Overridden(env) /\ Cardinality(Usables) = 1
    BY <1>1, <1>3, AvailableIsUsables, OneOrBoth DEF PrimaryType
  <1>4. CASE ~ Overridden(env) /\ Cardinality(Usables) # 1
    <2>1. Usables = Type
      BY <1>1, <1>4, OneOrBoth
    <2>2. PrimaryType(file, env) = file.backend.type
      BY <1>4, AvailableIsUsables DEF PrimaryType
    <2>3. Usable(file.backend, env)
      BY <2>1, BothBlocksNeeded
    <2>4. QED
      BY <2>1, <2>2, <2>3 DEF Usable
  <1>5. QED
    BY <1>2, <1>3, <1>4

LEMMA SettingsAreServer ==
    ASSUME TypeOK, Loads(file, env)
    PROVE  /\ Settings(file, env) \in Server
           /\ Settings(file, env).primary \in Settings(file, env).adapters
  <1>1. PrimaryType(file, env) \in Usables
    BY PrimaryIsUsable DEF Loads
  <1>2. Available(file, env) \in (SUBSET Type) \ {{}}
    BY <1>1, AvailableIsUsables, UsablesAreTypes
  <1>3. file.policy \in {Single} \cup SUBSET Type
    BY DEF TypeOK, File
  <1>4. PrimaryType(file, env) \in Type
    BY <1>1, UsablesAreTypes
  <1>5. (IF file.policy = Single THEN {PrimaryType(file, env)} ELSE file.policy)
          \in SUBSET Type
    BY <1>3, <1>4
  <1>6. (file.feed_auth # "none" \/ TvmHasKeys(file, env)) \in BOOLEAN
    OBVIOUS
  <1>7. Settings(file, env) \in Server
    BY <1>2, <1>4, <1>5, <1>6 DEF Settings, Server
  <1>8. Settings(file, env).primary \in Settings(file, env).adapters
    BY <1>1, AvailableIsUsables DEF Settings
  <1>9. QED
    BY <1>7, <1>8

-----------------------------------------------------------------------------
LEMMA InitHolds == Init => IInv
  <1> SUFFICES ASSUME Init
               PROVE  IInv
    OBVIOUS
  <1>1. {"tvm"} \in (SUBSET Type) \ {{}} /\ "tvm" \in Type
    BY DEF Type
  <1>2. NoServer \in Server
    BY <1>1 DEF NoServer, Server
  <1>3. TypeOK
    BY <1>2 DEF Init, TypeOK
  <1>4. StartedInv
    BY DEF Init, StartedInv
  <1>5. QED
    BY <1>3, <1>4 DEF IInv

LEMMA ChangeSettingKeeps ==
    ASSUME IInv, ChangeSetting
    PROVE  IInv'
  <1>1. env \in [keys : [Type -> EnvValue], override : Type \cup {"", "template"}]
    BY DEF IInv, TypeOK, Env
  <1>2. ASSUME NEW t \in Type, NEW v \in EnvValue, env' = [env EXCEPT !.keys[t] = v]
        PROVE  env' \in Env
    <2>1. [env.keys EXCEPT ![t] = v] \in [Type -> EnvValue]
      BY <1>1
    <2>2. env' = [env EXCEPT !.keys = [env.keys EXCEPT ![t] = v]]
      BY <1>1, <1>2
    <2>3. QED
      BY <1>1, <2>1, <2>2 DEF Env
  <1>3. ASSUME NEW o \in Type \cup {"", "template"}, env' = [env EXCEPT !.override = o]
        PROVE  env' \in Env
    BY <1>1, <1>3 DEF Env
  <1>4. env' \in Env
    BY <1>2, <1>3 DEF ChangeSetting
  <1>5. QED
    BY <1>4 DEF IInv, TypeOK, StartedInv, ChangeSetting

LEMMA StartKeeps ==
    ASSUME IInv, Start
    PROVE  IInv'
  <1>1. Loads(file, env) /\ server' = Settings(file, env) /\ UNCHANGED <<file, env>>
    BY DEF Start
  <1>2. TypeOK'
    BY <1>1, SettingsAreServer DEF IInv, TypeOK, Start
  <1>3. StartedInv'
    BY <1>1 DEF StartedInv, Start
  <1>4. QED
    BY <1>2, <1>3 DEF IInv

LEMMA OtherStepsKeep ==
    ASSUME IInv, StartRaises \/ Stop \/ UNCHANGED vars
    PROVE  IInv'
  BY DEF IInv, TypeOK, StartedInv, StartRaises, Stop, vars

LEMMA IInvHolds == Spec => []IInv
  <1>1. IInv /\ [Next]_vars => IInv'
    BY ChangeSettingKeeps, StartKeeps, OtherStepsKeep DEF Next
  <1>2. QED
    BY <1>1, InitHolds, PTL DEF Spec

-----------------------------------------------------------------------------
(* The variables keep their types, and a server that is up has its primary *)
(* backend among its adapters.                                             *)
THEOREM TypesHold == Spec => []TypeOK
  BY IInvHolds, PTL DEF IInv

(* config.py:217-227: a running server has every usable backend, and the   *)
(* primary one is chosen as the comments of load_config say.               *)
THEOREM RunsAsDocumented == Spec => []SettingsAsDocumented
  <1>1. IInv => SettingsAsDocumented
    <2> SUFFICES ASSUME IInv, state = "up"
                 PROVE  SettingsAsDocumented
      BY DEF SettingsAsDocumented
    <2>1. TypeOK /\ Loads(file, env) /\ server = Settings(file, env)
      BY DEF IInv, StartedInv
    <2>2. server.adapters = Usables /\ server.primary = PrimaryType(file, env)
      BY <2>1, AvailableIsUsables DEF Settings
    <2>3. PrimaryType(file, env) \in Usables
      BY <2>1, PrimaryIsUsable DEF Loads
    <2>4. Overridden(env) => server.primary = env.override
      BY <2>2 DEF PrimaryType
    <2>5. ~ Overridden(env) /\ Usables = Type => server.primary = file.backend.type
      BY <2>2, OneOrBoth, AvailableIsUsables DEF PrimaryType, Type
    <2>6. "tvm" \in Usables => server.feed_keys
      BY <2>1, AvailableIsUsables DEF Settings, TvmHasKeys
    <2>7. QED
      BY <2>2, <2>3, <2>4, <2>5, <2>6 DEF SettingsAsDocumented
  <1>2. QED
    BY <1>1, IInvHolds, PTL

(* config.py:236-237: the template text of a field left blank changes      *)
(* nothing.                                                                *)
THEOREM BlankFieldsAreHarmless == Spec => []BlankFieldHarmless
  <1>1. IInv => BlankFieldHarmless
    <2> SUFFICES ASSUME IInv, env.override = "template"
                 PROVE  LET blank == [env EXCEPT !.override = ""]
                        IN  /\ state = "failed" => ~ Loads(file, blank)
                            /\ state = "up" => /\ Loads(file, blank)
                                               /\ server = Settings(file, blank)
      BY DEF BlankFieldHarmless
    <2> DEFINE blank == [env EXCEPT !.override = ""]
    <2>1. blank.keys = env.keys /\ blank.override = ""
      BY DEF IInv, TypeOK, Env
    <2> HIDE DEF blank
    <2>2. ~ Overridden(env) /\ ~ Overridden(blank)
      BY <2>1 DEF Overridden, Type
    <2>3. \A auth : Resolves(auth, blank) <=> Resolves(auth, env)
      BY <2>1 DEF Resolves
    <2>4. \A block : Usable(block, blank) <=> Usable(block, env)
      BY <2>3 DEF Usable
    <2>5. Available(file, blank) = Available(file, env)
      BY <2>4 DEF Available
    <2>6. Loads(file, blank) <=> Loads(file, env)
      BY <2>2, <2>3, <2>5 DEF Loads, BackendsLoad, FeedLoads, PolicyLoads
    <2>7. Settings(file, blank) = Settings(file, env)
      BY <2>2, <2>5 DEF Settings, PrimaryType, TvmHasKeys
    <2>8. QED
      BY <2>6, <2>7 DEF IInv, StartedInv, blank
  <1>2. QED
    BY <1>1, IInvHolds, PTL

(* config.py:173-175, as far as the code keeps it: a block with an error,  *)
(* other than an empty auth entry, is as good as one not filled in.        *)
THEOREM BadBlocksAreHarmless == Spec => []BadBlockHarmless
  <1>1. IInv => BadBlockHarmless
    <2> SUFFICES ASSUME IInv, \A block \in Blocks(file) : ~ Breaks(block)
                 PROVE  /\ state = "failed" => ~ Loads(WithoutUnusable, env)
                        /\ state = "up" => /\ Loads(WithoutUnusable, env)
                                           /\ server = Settings(WithoutUnusable, env)
      BY DEF BadBlockHarmless
    <2> DEFINE bare == WithoutUnusable
               unfilled == [type |-> "tvm", auth |-> {}]
    <2>1. /\ bare.secondary = IF Usable(file.secondary, env) THEN file.secondary
                                                             ELSE NoBlock
          /\ bare.backend = IF Usable(file.backend, env) THEN file.backend
                                                         ELSE unfilled
          /\ bare.feed_auth = file.feed_auth /\ bare.policy = file.policy
      BY DEF IInv, TypeOK, File, WithoutUnusable
    <2> HIDE DEF bare
    <2>2. ~ Usable(NoBlock, env) /\ ~ Usable(unfilled, env)
      BY DEF Usable
    <2>3. Available(bare, env) = Available(file, env)
      BY <2>1, <2>2 DEF Available, Blocks
    <2>4. \A block \in Blocks(bare) : ~ Breaks(block)
      <3>1. {} # NullAuth => ~ Breaks(unfilled)
        BY DEF Breaks
      <3>2. ~ Breaks(NoBlock)
        BY DEF Breaks
      <3>3. QED
        BY <2>1, <3>1, <3>2, NullAuthAssumption DEF Blocks
    <2>5. BackendsLoad(bare, env) <=> BackendsLoad(file, env)
      BY <2>3, <2>4 DEF BackendsLoad
    <2>6. Loads(bare, env) <=> Loads(file, env)
      BY <2>1, <2>3, <2>5 DEF Loads, FeedLoads, PolicyLoads
    <2>7. ASSUME BackendsLoad(file, env)
          PROVE  PrimaryType(bare, env) = PrimaryType(file, env)
      <3>1. CASE Cardinality(Available(file, env)) = 1
        BY <2>3, <3>1 DEF PrimaryType
      <3>2. CASE Cardinality(Available(file, env)) # 1
        <4>1. Usables = Type
          BY <2>7, <3>2, AvailableIsUsables, UsablesAreTypes, OneOrBoth DEF BackendsLoad
        <4>2. Usable(file.backend, env)
          BY <4>1, BothBlocksNeeded
        <4>3. QED
          BY <2>1, <2>3, <4>2 DEF PrimaryType
      <3>3. QED
        BY <3>1, <3>2
    <2>8. ASSUME BackendsLoad(file, env)
          PROVE  Settings(bare, env) = Settings(file, env)
      BY <2>1, <2>3, <2>7, <2>8 DEF Settings, TvmHasKeys
    <2>9. QED
      BY <2>6, <2>8 DEF IInv, StartedInv, Loads, bare
  <1>2. QED
    BY <1>1, IInvHolds, PTL
===============================================================================
