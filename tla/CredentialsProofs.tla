------------------------- MODULE CredentialsProofs -------------------------
(* Theorems about Credentials, for every value of its constants. *)
EXTENDS Credentials, TLAPS

\* What the command at work knows of the file it has just read or written: the
\* signing key it files, or signs with, is still the one on file.
InRun ==
    /\ run.pc \in {"keygen", "create", "save", "file", "filed", "check", "sign", "deliver"}
          => run.kid \in Kids
    /\ At("create") => signing[run.kid] = Missing
    /\ At("save") => signing[run.kid] = Torn /\ run.key \in Keys
    /\ run.pc \in {"file", "filed", "deliver"}
          => signing[run.kid] = run.key /\ run.key \in Keys

\* A token on file was signed with the signing key on file.
TokenCanSign ==
    \A k \in Kids : token[k] \notin {Missing, Torn} =>
        token[k].key = signing[k] \/ token[k].key \in lost

Paired == TokenCanSign /\ TokensOutliveRestarts /\ AllowedCanSign

-----------------------------------------------------------------------------
(* Type correctness *)

\* A file that is missing or torn is no key.
LEMMA NoKeys == Missing \notin Keys /\ Torn \notin Keys /\ Missing # Torn
  BY CredentialsAssumption DEF Keys

\* No command at work is one.
LEMMA NoRunType == NoRun \in Run
  BY DEF NoRun, Run

\* Whatever a file is given, the record of when it held each key is one.
LEMMA OnFileType ==
  ASSUME TypeOK, NEW k \in Kids, NEW pem, OnFile(k, pem)
  PROVE  lastOnFile' \in [Kids -> [Keys -> Nat \cup {Never}]]
  <1> DEFINE at == [key \in Keys |-> IF public[k] = key \/ pem = key THEN clock
                                     ELSE lastOnFile[k][key]]
  <1>1. at \in [Keys -> Nat \cup {Never}]
    BY DEF TypeOK
  <1>2. lastOnFile' = [lastOnFile EXCEPT ![k] = at]
    BY DEF OnFile
  <1> HIDE DEF at
  <1> QED
    BY <1>1, <1>2 DEF TypeOK

\* A step of the script that changes nothing but the command.
LEMMA KeepsFilesType ==
  ASSUME TypeOK, KeepsFiles, run' \in Run
  PROVE  TypeOK'
  BY DEF TypeOK, KeepsFiles, files, bounds, server, aux

\* A step that changes files leaves these to be shown.
LEMMA KeepsType ==
  ASSUME TypeOK, UNCHANGED <<handed, crashes, losses, server, clock, lost, revoked>>,
         run' \in Run, made' \in 0 .. MaxKeys,
         signing' \in [Kids -> Pem], public' \in [Kids -> Pem],
         token' \in [Kids -> Token \cup {Missing, Torn}],
         lastOnFile' \in [Kids -> [Keys -> Nat \cup {Never}]]
  PROVE  TypeOK'
  BY DEF TypeOK, server

\* Every step of the script keeps the types.
LEMMA ProvisionType ==
  ASSUME TypeOK, InRun, Provision
  PROVE  TypeOK'
  <1>a. run \in Run /\ signing \in [Kids -> Pem] /\ public \in [Kids -> Pem]
    BY DEF TypeOK
  <1>1. CASE NextIdentity
    <2>1. CASE \E k \in run.left : run' = [run EXCEPT !.pc = "keygen", !.kid = k,
                                              !.left = @ \ {k}, !.key = Missing]
      BY <1>a, <2>1, <1>1, KeepsFilesType DEF NextIdentity, Run
    <2>2. CASE run' = [run EXCEPT !.pc = "done", !.kid = Nobody, !.key = Missing]
      BY <1>a, <2>2, <1>1, KeepsFilesType DEF NextIdentity, Run
    <2> QED
      BY <1>1, <2>1, <2>2 DEF NextIdentity
  <1>2. CASE Keygen
    <2>1. \/ run' = [run EXCEPT !.pc = "create"] \/ run' = [run EXCEPT !.pc = "check"]
          \/ run' = [run EXCEPT !.pc = "failed"]
          \/ /\ signing[run.kid] \in Keys
             /\ run' = [run EXCEPT !.pc = "file", !.key = signing[run.kid]]
      BY <1>2 DEF Keygen
    <2>2. run' \in Run
      BY <1>a, <2>1 DEF Run
    <2> QED
      BY <1>2, <2>2, KeepsFilesType DEF Keygen
  <1>3. CASE CreateSigningKey
    <2>1. made + 1 \in Keys /\ made' \in 0 .. MaxKeys /\ run.kid \in Kids
      BY <1>3, CredentialsAssumption DEF TypeOK, CreateSigningKey, Keys, InRun, At
    <2>2. run' \in Run
      BY <1>a, <1>3, <2>1 DEF CreateSigningKey, Run
    <2>3. signing' \in [Kids -> Pem]
      BY <1>a, <1>3 DEF CreateSigningKey, Pem
    <2> QED
      BY <1>3, <2>1, <2>2, <2>3, KeepsType DEF CreateSigningKey, Keeps, TypeOK
  <1>4. CASE SaveSigningKey
    <2>1. run' \in Run
      BY <1>a, <1>4 DEF SaveSigningKey, Run
    <2>2. signing' \in [Kids -> Pem]
      BY <1>a, <1>4 DEF SaveSigningKey, Pem, InRun, At
    <2> QED
      BY <1>4, <2>1, <2>2, KeepsType DEF SaveSigningKey, Keeps, TypeOK
  <1>5. CASE OpenPublicKey
    <2>1. run' \in Run /\ run.kid \in Kids
      BY <1>a, <1>5 DEF OpenPublicKey, Run, InRun, At
    <2>2. public' \in [Kids -> Pem]
      BY <1>a, <1>5 DEF OpenPublicKey, Pem
    <2>3. lastOnFile' \in [Kids -> [Keys -> Nat \cup {Never}]]
      BY <1>5, <2>1, OnFileType DEF OpenPublicKey
    <2> QED
      BY <1>5, <2>1, <2>2, <2>3, KeepsType DEF OpenPublicKey, Keeps, TypeOK
  <1>6. CASE FilePublicKey
    <2>1. run' \in Run /\ run.kid \in Kids
      BY <1>a, <1>6 DEF FilePublicKey, Run, InRun, At
    <2>2. public' \in [Kids -> Pem]
      BY <1>a, <1>6 DEF FilePublicKey, Pem, InRun, At
    <2>3. lastOnFile' \in [Kids -> [Keys -> Nat \cup {Never}]]
      BY <1>6, <2>1, OnFileType DEF FilePublicKey
    <2> QED
      BY <1>6, <2>1, <2>2, <2>3, KeepsType DEF FilePublicKey, Keeps, TypeOK
  <1>7. CASE CheckToken
    <2>1. run' \in Run
      BY <1>a, <1>7 DEF CheckToken, Run
    <2> QED
      BY <1>7, <2>1, KeepsFilesType DEF CheckToken
  <1>8. CASE SignToken
    <2>0. \/ run' = [run EXCEPT !.pc = "failed"]
          \/ /\ signing[run.kid] \in Keys
             /\ run' = [run EXCEPT !.pc = "deliver", !.key = signing[run.kid],
                                   !.exp = clock + Lifetime]
      BY <1>8 DEF SignToken
    <2>1. run' \in Run
      <3>1. clock + Lifetime \in Nat
        BY CredentialsAssumption DEF TypeOK
      <3>2. signing[run.kid] \in Keys => signing[run.kid] \in Keys \cup {Missing}
        OBVIOUS
      <3> QED
        BY <1>a, <2>0, <3>1, <3>2 DEF Run
    <2>2. token' \in [Kids -> Token \cup {Missing, Torn}]
      BY <1>8 DEF SignToken, TypeOK
    <2> QED
      BY <1>8, <2>1, <2>2, KeepsType DEF SignToken, Keeps, TypeOK
  <1>9. CASE DeliverToken
    <2>1. run' \in Run
      BY <1>a, <1>9 DEF DeliverToken, Run
    <2>2. [key |-> run.key, exp |-> run.exp] \in Token
      BY <1>a, <1>9 DEF DeliverToken, InRun, At, Token, Run
    <2>3. token' \in [Kids -> Token \cup {Missing, Torn}]
      BY <1>9, <2>2 DEF DeliverToken, TypeOK
    <2> QED
      BY <1>9, <2>1, <2>3, KeepsType DEF DeliverToken, Keeps, TypeOK
  <1> QED
    BY <1>1, <1>2, <1>3, <1>4, <1>5, <1>6, <1>7, <1>8, <1>9 DEF Provision

\* So does every step of the server.
LEMMA ServerType ==
  ASSUME TypeOK,
         StartServer \/ StopServer \/ CacheKey \/ (\E k \in Kids : ReadKey(k))
  PROVE  TypeOK'
  <1>a. Empty \in [pem : Pem, stamp : Nat] /\ NoRead \in [kid : Kids \cup {Nobody}, pem : Pem, since : Nat]
    BY DEF Empty, NoRead, Pem
  <1>1. CASE StartServer
    BY <1>1 DEF TypeOK, StartServer, files, bounds, aux
  <1>2. CASE StopServer
    <2>1. cache' \in [Kids -> [pem : Pem, stamp : Nat]]
      BY <1>a, <1>2 DEF StopServer
    <2>2. reading' = NoRead /\ serving' \in {"new", "up", "down"}
      BY <1>2 DEF StopServer
    <2> HIDE DEF NoRead
    <2> QED
      BY <1>a, <1>2, <2>1, <2>2 DEF TypeOK, StopServer, files, bounds, aux
  <1>3. CASE CacheKey
    <2>1. reading.kid \in Kids /\ [pem |-> reading.pem, stamp |-> clock] \in [pem : Pem, stamp : Nat]
      BY <1>3 DEF TypeOK, CacheKey
    <2>2. cache' \in [Kids -> [pem : Pem, stamp : Nat]]
      BY <1>3, <2>1 DEF TypeOK, CacheKey
    <2> QED
      BY <1>a, <1>3, <2>2 DEF TypeOK, CacheKey, files, bounds, aux
  <1>4. ASSUME NEW k \in Kids, ReadKey(k)
        PROVE  TypeOK'
    <2>1. cache' \in [Kids -> [pem : Pem, stamp : Nat]]
      BY <1>a, <1>4 DEF TypeOK, ReadKey
    <2>2. reading' \in [kid : Kids \cup {Nobody}, pem : Pem, since : Nat]
      BY <1>4 DEF TypeOK, ReadKey
    <2> QED
      BY <1>4, <2>1, <2>2 DEF TypeOK, ReadKey, files, bounds, aux
  <1> QED
    BY <1>1, <1>2, <1>3, <1>4

\* So do operators, agents and accidents.
LEMMA OutsideType ==
  ASSUME TypeOK,
         \/ StartProvision \/ Crash \/ Tick
         \/ \E k \in Kids : StartKeygen(k) \/ Collect(k) \/ Revoke(k)
         \/ \E vs \in Losses : LoseVolumes(vs)
  PROVE  TypeOK'
  <1>1. CASE StartProvision
    <2>1. run' \in Run
      BY <1>1, NoRunType DEF StartProvision, Run
    <2> QED
      BY <1>1, <2>1, KeepsFilesType DEF StartProvision
  <1>2. CASE Crash
    <2>1. run' \in Run
      BY <1>2, NoRunType DEF Crash, Run
    <2> QED
      BY <1>2, <2>1 DEF Crash, TypeOK, files, server, aux
  <1>3. CASE Tick
    BY <1>3 DEF Tick, TypeOK, files, bounds, server, aux
  <1>4. ASSUME NEW k \in Kids, StartKeygen(k)
        PROVE  TypeOK'
    <2>1. run' \in Run
      BY <1>4, NoRunType DEF StartKeygen, Run
    <2> QED
      BY <1>4, <2>1, KeepsFilesType DEF StartKeygen
  <1>5. ASSUME NEW k \in Kids, Collect(k)
        PROVE  TypeOK'
    <2>1. token[k].key \in Keys
      BY <1>5 DEF TypeOK, Collect, Token
    <2>2. handed' \subseteq Kids \X Keys
      BY <1>5, <2>1 DEF TypeOK, Collect
    <2> QED
      BY <1>5, <2>2 DEF Collect, TypeOK, files, bounds, server, aux
  <1>6. ASSUME NEW k \in Kids, Revoke(k)
        PROVE  TypeOK'
    <2>1. public' \in [Kids -> Pem] /\ revoked' \subseteq Kids /\ losses' \in Nat
      BY <1>6 DEF TypeOK, Revoke, Pem
    <2>2. lastOnFile' \in [Kids -> [Keys -> Nat \cup {Never}]]
      BY <1>6, OnFileType DEF Revoke
    <2> QED
      BY <1>6, <2>1, <2>2 DEF Revoke, TypeOK, server
  <1>7. ASSUME NEW vs \in Losses, LoseVolumes(vs)
        PROVE  TypeOK'
    <2>1. /\ signing' \in [Kids -> Pem] /\ public' \in [Kids -> Pem]
          /\ token' \in [Kids -> Token \cup {Missing, Torn}]
      BY <1>7 DEF TypeOK, LoseVolumes, Pem
    <2>2. lost' \subseteq Pem /\ losses' \in Nat
      BY <1>7 DEF TypeOK, LoseVolumes
    <2>3. lastOnFile' \in [Kids -> [Keys -> Nat \cup {Never}]]
      BY <1>7 DEF TypeOK, LoseVolumes
    <2>4. run' \in Run
      BY <1>7, NoRunType DEF LoseVolumes
    <2> QED
      BY <1>7, <2>1, <2>2, <2>3, <2>4 DEF LoseVolumes, TypeOK
  <1> QED
    BY <1>1, <1>2, <1>3, <1>4, <1>5, <1>6, <1>7

-----------------------------------------------------------------------------
(* Keys, tokens and the signing keys on file *)

\* A step of the script leaves the command knowing what is on file.
LEMMA ProvisionInRun ==
  ASSUME TypeOK, InRun, Provision
  PROVE  InRun'
  <1>a. run \in Run /\ signing \in [Kids -> Pem]
    BY DEF TypeOK
  <1>1. CASE NextIdentity
    BY <1>a, <1>1 DEF NextIdentity, KeepsFiles, files, InRun, At, Run
  <1>2. CASE Keygen
    BY <1>a, <1>2 DEF Keygen, KeepsFiles, files, InRun, At, Run
  <1>3. CASE CreateSigningKey
    <2>1. made + 1 \in Keys
      BY <1>3, CredentialsAssumption DEF TypeOK, CreateSigningKey, Keys
    <2> QED
      BY <1>a, <1>3, <2>1 DEF CreateSigningKey, InRun, At, Run
  <1>4. CASE SaveSigningKey
    BY <1>a, <1>4 DEF SaveSigningKey, InRun, At, Run
  <1>5. CASE OpenPublicKey \/ FilePublicKey
    BY <1>a, <1>5 DEF OpenPublicKey, FilePublicKey, Keeps, InRun, At, Run
  <1>6. CASE CheckToken
    BY <1>a, <1>6 DEF CheckToken, KeepsFiles, files, InRun, At, Run
  <1>7. CASE SignToken
    BY <1>a, <1>7 DEF SignToken, Keeps, InRun, At, Run
  <1>8. CASE DeliverToken
    BY <1>a, <1>8 DEF DeliverToken, Keeps, InRun, At, Run
  <1> QED
    BY <1>1, <1>2, <1>3, <1>4, <1>5, <1>6, <1>7, <1>8 DEF Provision

\* It replaces no signing key, and files and signs with the one on file only.
LEMMA ProvisionPaired ==
  ASSUME TypeOK, InRun, Paired, Provision
  PROVE  Paired'
  <1>a. /\ signing \in [Kids -> Pem] /\ public \in [Kids -> Pem]
        /\ token \in [Kids -> Token \cup {Missing, Torn}] /\ handed \subseteq Kids \X Keys
    BY DEF TypeOK
  <1>1. CASE NextIdentity \/ Keygen \/ CheckToken
    <2>1. UNCHANGED <<signing, public, token, handed, lost>>
      BY <1>1 DEF NextIdentity, Keygen, CheckToken, KeepsFiles, files, aux
    <2> QED
      BY <2>1 DEF Paired, TokenCanSign, TokensOutliveRestarts, AllowedCanSign
  <1>2. CASE CreateSigningKey \/ SaveSigningKey
    <2>1. PICK pem : signing' = [signing EXCEPT ![run.kid] = pem]
      BY <1>2 DEF CreateSigningKey, SaveSigningKey
    <2>2. UNCHANGED <<public, token, handed, lost>> /\ run.kid \in Kids
      BY <1>2 DEF CreateSigningKey, SaveSigningKey, Keeps, InRun, At
    <2>3. signing[run.kid] \notin Keys
      BY <1>2, NoKeys DEF CreateSigningKey, SaveSigningKey, InRun, At
    <2>4. \A k \in Kids, key \in Keys : signing[k] = key => signing'[k] = key
      BY <1>a, <2>1, <2>2, <2>3
    <2>5. TokenCanSign'
      BY <1>a, <2>2, <2>4 DEF Paired, TokenCanSign, Token
    <2>6. TokensOutliveRestarts'
      BY <1>a, <2>2, <2>4 DEF Paired, TokensOutliveRestarts
    <2>7. AllowedCanSign'
      BY <1>a, <2>2, <2>4 DEF Paired, AllowedCanSign
    <2> QED
      BY <2>5, <2>6, <2>7 DEF Paired
  <1>3. CASE OpenPublicKey \/ FilePublicKey
    <2>1. PICK pem \in {Torn, run.key} : public' = [public EXCEPT ![run.kid] = pem]
      BY <1>3 DEF OpenPublicKey, FilePublicKey
    <2>2. UNCHANGED <<signing, token, handed, lost>> /\ signing[run.kid] = run.key
      BY <1>3 DEF OpenPublicKey, FilePublicKey, Keeps, InRun, At
    <2>3. AllowedCanSign'
      BY <1>a, <2>1, <2>2, NoKeys DEF Paired, AllowedCanSign
    <2> QED
      BY <2>2, <2>3 DEF Paired, TokenCanSign, TokensOutliveRestarts
  <1>4. CASE SignToken \/ DeliverToken
    <2>1. UNCHANGED <<signing, public, handed, lost>>
      BY <1>4 DEF SignToken, DeliverToken, Keeps
    <2>2. \A k \in Kids : token'[k] = token[k] \/ token'[k] \in {Missing, Torn}
                            \/ token'[k].key = signing[k]
      <3>1. CASE SignToken
        BY <1>a, <3>1 DEF SignToken
      <3>2. CASE DeliverToken
        BY <1>a, <3>2 DEF DeliverToken, InRun, At
      <3> QED
        BY <1>4, <3>1, <3>2
    <2>3. TokenCanSign'
      BY <2>1, <2>2 DEF Paired, TokenCanSign
    <2> QED
      BY <2>1, <2>3 DEF Paired, TokensOutliveRestarts, AllowedCanSign
  <1> QED
    BY <1>1, <1>2, <1>3, <1>4 DEF Provision

\* What others do: the files of the command at work are left alone, and a
\* signing key that goes is remembered as lost.
LEMMA OthersPaired ==
  ASSUME TypeOK, InRun, Paired, [Next]_vars, ~Provision
  PROVE  InRun' /\ Paired'
  <1>a. /\ signing \in [Kids -> Pem] /\ public \in [Kids -> Pem]
        /\ token \in [Kids -> Token \cup {Missing, Torn}] /\ handed \subseteq Kids \X Keys
    BY DEF TypeOK
  <1>1. CASE UNCHANGED <<files, handed, run, lost>>
    BY <1>1 DEF InRun, At, Paired, TokenCanSign, TokensOutliveRestarts, AllowedCanSign, files
  <1>2. CASE StartProvision \/ Crash \/ (\E k \in Kids : StartKeygen(k))
    <2>1. UNCHANGED <<signing, public, token, handed, lost>>
      BY <1>2 DEF StartProvision, Crash, StartKeygen, KeepsFiles, files, aux
    <2>2. /\ run'.pc \in {"next", "keygen", "failed"}
          /\ run'.pc = "keygen" => run'.kid \in Kids
      BY <1>2 DEF StartProvision, Crash, StartKeygen, NoRun
    <2> QED
      BY <2>1, <2>2 DEF InRun, At, Paired, TokenCanSign, TokensOutliveRestarts, AllowedCanSign
  <1>3. ASSUME NEW k \in Kids, Collect(k)
        PROVE  InRun' /\ Paired'
    <2>1. UNCHANGED <<signing, public, token, run, lost>>
      BY <1>3 DEF Collect, files, aux
    <2>2. TokensOutliveRestarts'
      BY <1>a, <1>3, <2>1 DEF Collect, Paired, TokenCanSign, TokensOutliveRestarts
    <2> QED
      BY <2>1, <2>2 DEF InRun, At, Paired, TokenCanSign, AllowedCanSign
  <1>4. ASSUME NEW k \in Kids, Revoke(k)
        PROVE  InRun' /\ Paired'
    <2>1. UNCHANGED <<signing, token, handed, run, lost>>
      BY <1>4 DEF Revoke
    <2>2. AllowedCanSign'
      BY <1>a, <1>4, <2>1, NoKeys DEF Revoke, Paired, AllowedCanSign
    <2> QED
      BY <2>1, <2>2 DEF InRun, At, Paired, TokenCanSign, TokensOutliveRestarts
  <1>5. ASSUME NEW vs \in Losses, LoseVolumes(vs)
        PROVE  InRun' /\ Paired'
    <2>1. handed' = handed /\ run'.pc = "off"
      BY <1>5 DEF LoseVolumes, NoRun
    <2>2. InRun'
      BY <2>1 DEF InRun, At
    <2>3. \A k \in Kids, key \in Keys :
            signing[k] = key \/ key \in lost => signing'[k] = key \/ key \in lost'
      BY <1>a, <1>5 DEF LoseVolumes
    <2>4. \A k \in Kids : /\ public'[k] \in {public[k], Missing}
                          /\ token'[k] \in {token[k], Missing}
      BY <1>a, <1>5 DEF LoseVolumes
    <2>5. TokenCanSign'
      BY <1>a, <2>3, <2>4 DEF Paired, TokenCanSign, Token
    <2>6. TokensOutliveRestarts'
      BY <1>a, <2>1, <2>3 DEF Paired, TokensOutliveRestarts
    <2>7. AllowedCanSign'
      BY <1>a, <2>3, <2>4, NoKeys DEF Paired, AllowedCanSign
    <2> QED
      BY <2>2, <2>5, <2>6, <2>7 DEF Paired
  <1>6. CASE StartServer \/ StopServer \/ CacheKey \/ Tick \/ UNCHANGED vars
             \/ (\E k \in Kids : ReadKey(k))
    <2>1. UNCHANGED <<files, handed, run, lost>>
      BY <1>6 DEF StartServer, StopServer, CacheKey, Tick, ReadKey, vars, aux
    <2> QED
      BY <1>1, <2>1
  <1> QED
    BY <1>2, <1>3, <1>4, <1>5, <1>6 DEF Next

\* The system starts with nothing on file and nothing handed out.
LEMMA InitPaired ==
  ASSUME Init
  PROVE  TypeOK /\ InRun /\ Paired
  <1>1. NoRun \in Run /\ NoRun.pc = "off"
    BY DEF NoRun, Run
  <1>2. InRun
    BY <1>1 DEF Init, InRun, At
  <1>3. Paired
    BY NoKeys DEF Init, Paired, TokenCanSign, TokensOutliveRestarts, AllowedCanSign
  <1>4. /\ cache \in [Kids -> [pem : Pem, stamp : Nat]]
        /\ reading \in [kid : Kids \cup {Nobody}, pem : Pem, since : Nat]
    BY DEF Init, Empty, NoRead, Pem
  <1>5. made \in 0 .. MaxKeys
    BY CredentialsAssumption DEF Init
  <1>6. TypeOK
    BY <1>1, <1>4, <1>5 DEF Init, TypeOK, Pem
  <1> QED
    BY <1>2, <1>3, <1>6

\* One step of the whole.
LEMMA NextPaired ==
  ASSUME TypeOK, InRun, Paired, [Next]_vars
  PROVE  TypeOK' /\ InRun' /\ Paired'
  <1>1. CASE Provision
    BY <1>1, ProvisionType, ProvisionInRun, ProvisionPaired
  <1>2. CASE ~Provision
    <2>1. TypeOK'
      <3>1. CASE UNCHANGED vars
        BY <3>1 DEF vars, TypeOK, files, bounds, server, aux
      <3>2. CASE Next
        BY <1>2, <3>2, ServerType, OutsideType DEF Next
      <3> QED
        BY <3>1, <3>2
    <2> QED
      BY <1>2, <2>1, OthersPaired
  <1> QED
    BY <1>1, <1>2

\* The state keeps its types, and the command at work always knows the signing
\* key that is on file.
THEOREM CredentialsCorrect == Spec => [](TypeOK /\ InRun /\ Paired)
  <1>1. Init => TypeOK /\ InRun /\ Paired
    BY InitPaired
  <1>2. TypeOK /\ InRun /\ Paired /\ [Next]_vars => (TypeOK /\ InRun /\ Paired)'
    BY NextPaired
  <1> QED
    BY <1>1, <1>2, PTL DEF Spec

\* No restart, crash or repeated command invalidates a token an agent holds, as
\* long as the signing key is not lost.
THEOREM TokensOutlive == Spec => []TokensOutliveRestarts
  <1>1. TypeOK /\ InRun /\ Paired => TokensOutliveRestarts
    BY DEF Paired
  <1> QED
    BY <1>1, CredentialsCorrect, PTL

\* No key on the server's allowlist is one that nobody can sign with.
THEOREM AllowlistUsable == Spec => []AllowedCanSign
  <1>1. TypeOK /\ InRun /\ Paired => AllowedCanSign
    BY DEF Paired
  <1> QED
    BY <1>1, CredentialsCorrect, PTL
-----------------------------------------------------------------------------
(* Revocation *)

\* The key was on the kid's file at time t or later.
HeldSince(k, key, t) == public[k] = key \/ lastOnFile[k][key] >= t

\* A read under way began no longer ago than a read takes, and its key was on
\* file then; one that is cached was on file a read before its stamp.
ReadInTime ==
    reading.kid # Nobody =>
        /\ reading.since <= clock /\ clock <= reading.since + ReadTime
        /\ reading.pem \in Keys => HeldSince(reading.kid, reading.pem, reading.since)

CachedInTime ==
    \A k \in Kids : cache[k].pem \in Keys =>
        /\ cache[k].stamp <= clock
        /\ HeldSince(k, cache[k].pem, cache[k].stamp - ReadTime)

InTime == ReadInTime /\ CachedInTime

\* A key that a step takes off the file is recorded as on it until now, and no
\* record of the past is lost otherwise.
LEMMA Recorded ==
  ASSUME TypeOK, InRun, [Next]_vars, NEW k \in Kids, NEW key \in Keys
  PROVE  /\ lastOnFile'[k][key] \in {lastOnFile[k][key], clock}
         /\ public[k] = key /\ public'[k] # key => lastOnFile'[k][key] = clock
  <1>a. public \in [Kids -> Pem] /\ lastOnFile \in [Kids -> [Keys -> Nat \cup {Never}]]
    BY DEF TypeOK
  <1>1. CASE UNCHANGED <<public, lastOnFile>>
    BY <1>1
  <1>2. ASSUME NEW j \in Kids, NEW pem, OnFile(j, pem), public' = [public EXCEPT ![j] = pem]
        PROVE  /\ lastOnFile'[k][key] \in {lastOnFile[k][key], clock}
               /\ public[k] = key /\ public'[k] # key => lastOnFile'[k][key] = clock
    BY <1>a, <1>2 DEF OnFile
  <1>3. CASE OpenPublicKey
    BY <1>2, <1>3 DEF OpenPublicKey, InRun, At
  <1>4. CASE FilePublicKey
    BY <1>2, <1>4 DEF FilePublicKey, InRun, At
  <1>5. CASE \E j \in Kids : Revoke(j)
    BY <1>2, <1>5 DEF Revoke
  <1>6. CASE \E vs \in Losses : LoseVolumes(vs)
    <2>1. lastOnFile'[k][key] = IF public[k] = key THEN clock ELSE lastOnFile[k][key]
      BY <1>6 DEF LoseVolumes
    <2> QED
      BY <2>1
  <1>7. CASE /\ Provision \/ UNCHANGED vars
             /\ ~OpenPublicKey /\ ~FilePublicKey
    <2>1. UNCHANGED <<public, lastOnFile>>
      BY <1>7 DEF Provision, NextIdentity, Keygen, CreateSigningKey, SaveSigningKey,
         CheckToken, SignToken, DeliverToken, KeepsFiles, Keeps, files, aux, vars
    <2> QED
      BY <1>1, <2>1
  <1>8. CASE \/ StartProvision \/ Crash \/ StartServer \/ StopServer \/ CacheKey \/ Tick
             \/ \E j \in Kids : StartKeygen(j) \/ ReadKey(j) \/ Collect(j)
    <2>1. UNCHANGED <<public, lastOnFile>>
      BY <1>8 DEF StartProvision, Crash, StartServer, StopServer, CacheKey, Tick,
         StartKeygen, ReadKey, Collect, KeepsFiles, files, aux
    <2> QED
      BY <1>1, <2>1
  <1> QED
    BY <1>3, <1>4, <1>5, <1>6, <1>7, <1>8 DEF Next

\* So what was on file at some time stays known to have been.
LEMMA StillHeld ==
  ASSUME TypeOK, InRun, [Next]_vars, NEW k \in Kids, NEW key \in Keys,
         NEW t \in Int, t <= clock, HeldSince(k, key, t)
  PROVE  HeldSince(k, key, t)'
  <1>1. lastOnFile[k][key] \in Int /\ clock \in Int
    BY DEF TypeOK, Never
  <1> QED
    BY <1>1, Recorded DEF HeldSince

\* What the server has read and what it is reading when nothing of it changes.
LEMMA OthersInTime ==
  ASSUME TypeOK, InRun, InTime, [Next]_vars, UNCHANGED <<cache, reading, clock>>
  PROVE  InTime'
  <1>1. ReadInTime'
    <2> SUFFICES ASSUME reading.kid # Nobody
                 PROVE  /\ reading.since <= clock /\ clock <= reading.since + ReadTime
                        /\ reading.pem \in Keys =>
                              HeldSince(reading.kid, reading.pem, reading.since)'
      BY DEF ReadInTime, HeldSince
    <2>1. reading.kid \in Kids /\ reading.since \in Int
      BY DEF TypeOK
    <2> QED
      BY <2>1, StillHeld DEF InTime, ReadInTime
  <1>2. CachedInTime'
    <2> SUFFICES ASSUME NEW k \in Kids, cache[k].pem \in Keys
                 PROVE  /\ cache[k].stamp <= clock
                        /\ HeldSince(k, cache[k].pem, cache[k].stamp - ReadTime)'
      BY DEF CachedInTime, HeldSince
    <2>1. cache[k].stamp \in Nat /\ clock \in Nat /\ ReadTime \in Nat
      BY CredentialsAssumption DEF TypeOK
    <2>2. cache[k].stamp <= clock /\ HeldSince(k, cache[k].pem, cache[k].stamp - ReadTime)
      BY DEF InTime, CachedInTime
    <2>3. cache[k].stamp - ReadTime \in Int /\ cache[k].stamp - ReadTime <= clock
      BY <2>1, <2>2
    <2> QED
      BY <2>2, <2>3, StillHeld
  <1> QED
    BY <1>1, <1>2 DEF InTime

\* One step: a read begins with what is on file, and is kept when it ends.
LEMMA NextInTime ==
  ASSUME TypeOK, InRun, InTime, [Next]_vars
  PROVE  InTime'
  <1>a. /\ clock \in Nat /\ ReadTime \in Nat
        /\ public \in [Kids -> Pem]
        /\ cache \in [Kids -> [pem : Pem, stamp : Nat]]
        /\ reading \in [kid : Kids \cup {Nobody}, pem : Pem, since : Nat]
    BY CredentialsAssumption DEF TypeOK
  <1>b. Missing \notin Keys /\ Nobody \notin Kids
    BY NoKeys, CredentialsAssumption
  <1>1. CASE UNCHANGED <<cache, reading, clock>>
    BY <1>1, OthersInTime
  <1>2. CASE StopServer
    <2>1. cache' = [k \in Kids |-> Empty] /\ reading' = NoRead
      BY <1>2 DEF StopServer
    <2> QED
      BY <1>b, <2>1 DEF InTime, ReadInTime, CachedInTime, Empty, NoRead
  <1>3. ASSUME NEW j \in Kids, ReadKey(j) PROVE InTime'
    <2>0. UNCHANGED <<public, lastOnFile, clock>>
      BY <1>3 DEF ReadKey, files, aux
    <2>1. CASE public[j] = Missing
      <3>1. cache' = [cache EXCEPT ![j] = Empty] /\ reading' = reading
        BY <1>3, <2>1 DEF ReadKey
      <3>2. CachedInTime'
        BY <1>a, <1>b, <2>0, <3>1 DEF InTime, CachedInTime, HeldSince, Empty
      <3>3. ReadInTime'
        BY <2>0, <3>1 DEF InTime, ReadInTime, HeldSince
      <3> QED
        BY <3>2, <3>3 DEF InTime
    <2>2. CASE public[j] # Missing
      <3>1. reading' = [kid |-> j, pem |-> public[j], since |-> clock] /\ cache' = cache
        BY <1>3, <2>2 DEF ReadKey
      <3>2. CachedInTime'
        BY <2>0, <3>1 DEF InTime, CachedInTime, HeldSince
      <3>3. ReadInTime'
        BY <1>a, <2>0, <3>1 DEF ReadInTime, HeldSince
      <3> QED
        BY <3>2, <3>3 DEF InTime
    <2> QED
      BY <2>1, <2>2
  <1>4. CASE CacheKey
    <2> DEFINE j == reading.kid
    <2>0. UNCHANGED <<public, lastOnFile, clock>> /\ j \in Kids
      BY <1>a, <1>4 DEF CacheKey, files, aux
    <2>1. /\ cache' = [cache EXCEPT ![j] = [pem |-> reading.pem, stamp |-> clock]]
          /\ reading' = NoRead
      BY <1>4 DEF CacheKey
    <2>2. ReadInTime'
      BY <2>1 DEF ReadInTime, NoRead
    <2>3. reading.pem \in Keys => HeldSince(j, reading.pem, clock - ReadTime)
      <3>1. SUFFICES ASSUME reading.pem \in Keys
                     PROVE  HeldSince(j, reading.pem, clock - ReadTime)
        OBVIOUS
      <3>2. /\ reading.since \in Nat /\ clock <= reading.since + ReadTime
            /\ HeldSince(j, reading.pem, reading.since)
        BY <1>a, <1>4, <3>1 DEF InTime, ReadInTime, CacheKey
      <3>3. lastOnFile[j][reading.pem] \in Int
        BY <2>0, <3>1 DEF TypeOK, Never
      <3> QED
        BY <1>a, <3>2, <3>3 DEF HeldSince
    <2>4. CachedInTime'
      <3> SUFFICES ASSUME NEW k \in Kids, cache'[k].pem \in Keys
                   PROVE  /\ cache'[k].stamp <= clock
                          /\ HeldSince(k, cache'[k].pem, cache'[k].stamp - ReadTime)
        BY <2>0 DEF CachedInTime, HeldSince
      <3>1. CASE k = j
        <4>1. cache'[k] = [pem |-> reading.pem, stamp |-> clock]
          BY <1>a, <2>1, <3>1
        <4> QED
          BY <1>a, <2>3, <3>1, <4>1
      <3>2. CASE k # j
        <4>1. cache'[k] = cache[k]
          BY <1>a, <2>1, <3>2
        <4> QED
          BY <4>1 DEF InTime, CachedInTime
      <3> QED
        BY <3>1, <3>2
    <2> QED
      BY <2>2, <2>4 DEF InTime
  <1>5. CASE Tick
    <2>1. /\ UNCHANGED <<public, lastOnFile, cache, reading>> /\ clock' = clock + 1
          /\ reading.kid # Nobody => clock < reading.since + ReadTime
      BY <1>5 DEF Tick, files, aux, server
    <2>2. ReadInTime'
      BY <1>a, <2>1 DEF InTime, ReadInTime, HeldSince
    <2>3. CachedInTime'
      BY <1>a, <2>1 DEF InTime, CachedInTime, HeldSince
    <2> QED
      BY <2>2, <2>3 DEF InTime
  <1>6. CASE \/ Provision \/ StartProvision \/ Crash \/ StartServer \/ UNCHANGED vars
             \/ (\E k \in Kids : StartKeygen(k) \/ Collect(k) \/ Revoke(k))
             \/ (\E vs \in Losses : LoseVolumes(vs))
    <2>1. CASE Provision
      BY <1>1, <2>1 DEF Provision, NextIdentity, Keygen, CreateSigningKey, SaveSigningKey,
         OpenPublicKey, FilePublicKey, CheckToken, SignToken, DeliverToken, KeepsFiles,
         Keeps, server
    <2>2. CASE ~Provision
      <3>1. UNCHANGED <<cache, reading, clock>>
        BY <1>6, <2>2 DEF StartProvision, Crash, StartServer, vars, server, StartKeygen,
           Collect, Revoke, LoseVolumes, KeepsFiles
      <3> QED
        BY <1>1, <3>1
    <2> QED
      BY <2>1, <2>2
  <1> QED
    BY <1>2, <1>3, <1>4, <1>5, <1>6 DEF Next

\* A key taken off the file is honoured for no longer than the TTL and one read,
\* however long both are, and whatever provisioning and operators do.
THEOREM RevocationIsTimely == Spec => []RevokedWithinTtl
  <1>1. Init => TypeOK /\ InRun /\ InTime
    BY InitPaired, NoKeys DEF Init, InTime, ReadInTime, CachedInTime, NoRead, Empty
  <1>2. TypeOK /\ InRun /\ InTime /\ TypeOK' /\ InRun' /\ [Next]_vars => InTime'
    BY NextInTime
  <1>3. TypeOK /\ InTime => RevokedWithinTtl
    <2> SUFFICES ASSUME TypeOK, InTime, NEW k \in Kids, serving = "up", Fresh(k),
                        cache[k].pem \in Keys, public[k] # cache[k].pem
                 PROVE  clock < lastOnFile[k][cache[k].pem] + Ttl + ReadTime
      BY DEF RevokedWithinTtl
    <2>1. /\ clock \in Int /\ cache[k].stamp \in Int /\ Ttl \in Int /\ ReadTime \in Int
          /\ lastOnFile[k][cache[k].pem] \in Int
      BY CredentialsAssumption DEF TypeOK, Never
    <2>2. lastOnFile[k][cache[k].pem] >= cache[k].stamp - ReadTime
      BY DEF InTime, CachedInTime, HeldSince
    <2>3. clock - cache[k].stamp < Ttl
      BY DEF Fresh
    <2> QED
      BY <2>1, <2>2, <2>3
  <1> QED
    BY <1>1, <1>2, <1>3, CredentialsCorrect, PTL DEF Spec
=============================================================================
