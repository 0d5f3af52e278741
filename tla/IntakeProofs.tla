---------------------------- MODULE IntakeProofs ----------------------------
(***************************************************************************)
(* What holds of the intake for any parties, numbers, drafts, forms, files *)
(* and senders, and whatever documents are read.                           *)
(***************************************************************************)
EXTENDS Intake, SumTheorems

\* The part of TypeOK that the invariants rest on.
Types ==
  /\ rows \in [Key -> Nat]
  /\ draft \in [Draft -> {"absent", "pending", "committed", "rejected"}]
  /\ made \in [Draft -> BOOLEAN]
  /\ at \in [Tab -> {"idle", "party", "check", "insert", "booked"}]
  /\ doc \in [Tab -> Draft \cup {None}] /\ pick \in [Tab -> Key \cup {None}]
  /\ load \in [Batch -> {"idle", "web", "service", "planned"}]
  /\ plan \in [Batch -> [PayableKey -> Nat]]
  /\ cut \in [Batch -> BOOLEAN]
  /\ since \in [Writer -> SUBSET Key]

\* A form that has booked its draft has made an invoice of it; one that is under
\* way has a key.
FormsAreSound ==
  \A t \in Tab : /\ at[t] = "booked" => doc[t] \in Draft /\ made[doc[t]]
                 /\ at[t] # "idle" => pick[t] \in Key

\* RefusalMeansRace, of the forms and of the batches.
FormMayInsert(t) == at[t] = "insert" => Admits(pick[t]) \/ pick[t] \in since[t]

BatchMayInsert(b) ==
  load[b] = "planned" =>
    \A k \in PayableKey : plan[b][k] > 0 =>
      plan[b][k] = 1 /\ (Admits(k) \/ k \in since[b] \/ cut[b])

IInv ==
  /\ Types
  /\ FormsAreSound
  /\ VendorNumberUnique
  /\ CommittedIsBooked
  /\ \A t \in Tab : FormMayInsert(t)
  /\ \A b \in Batch : BatchMayInsert(b)

\* A receivable is never refused, and its key is none of a payable.
LEMMA KeysApart ==
  /\ PayableKey \subseteq Key /\ ReceivableKey \subseteq Key
  /\ PayableKey \cap ReceivableKey = {}
  /\ Key = PayableKey \cup ReceivableKey
BY ActorsDiffer DEF PayableKey, ReceivableKey, Key, Party

\* Others who have looked still know of every conflict when me has inserted K.
LEMMA AddedIsMissed ==
  ASSUME IInv, NEW me, NEW K \in SUBSET Key, Added(K, me), rows' \in [Key -> Nat],
         \A k \in PayableKey \ K : rows'[k] <= rows[k]
  PROVE  /\ since' \in [Writer -> SUBSET Key]
         /\ \A t \in Tab \ {me} : UNCHANGED <<at[t], pick[t]>> => FormMayInsert(t)'
         /\ \A b \in Batch \ {me} : UNCHANGED <<load[b], plan[b], cut[b]>> => BatchMayInsert(b)'
<1>1. since' \in [Writer -> SUBSET Key]
  BY DEF Added, IInv, Types
<1>2. ASSUME NEW t \in Tab \ {me}, UNCHANGED <<at[t], pick[t]>>, at[t] = "insert"
      PROVE  Admits(pick[t])' \/ pick[t] \in since'[t]
  <2>1. t \in Writer /\ pick[t] \in Key /\ rows[pick[t]] \in Nat /\ rows'[pick[t]] \in Nat
    BY <1>2 DEF Writer, IInv, Types, FormsAreSound
  <2>2. since'[t] = since[t] \cup (K \cap {pick[t]})
    BY <1>2, <2>1 DEF Added, Aims
  <2>3. Admits(pick[t]) \/ pick[t] \in since[t]
    BY <1>2 DEF IInv, FormMayInsert
  <2> QED
    BY <1>2, <2>1, <2>2, <2>3, KeysApart DEF Admits
<1>3. ASSUME NEW b \in Batch \ {me}, UNCHANGED <<load[b], plan[b], cut[b]>>, load[b] = "planned",
             NEW k \in PayableKey, plan[b][k] > 0
      PROVE  plan[b][k] = 1 /\ (Admits(k)' \/ k \in since'[b] \/ cut[b])
  <2>1. b \in Writer /\ b \notin Tab /\ k \in Key /\ rows[k] \in Nat /\ rows'[k] \in Nat
    BY <1>3, ActorsDiffer, KeysApart DEF Writer, IInv, Types
  <2>2. k \in K => k \in since'[b]
    BY <1>3, <2>1 DEF Added, Aims
  <2>3. since[b] \subseteq since'[b]
    BY <1>3, <2>1 DEF Added
  <2>4. plan[b][k] = 1 /\ (Admits(k) \/ k \in since[b] \/ cut[b])
    BY <1>3 DEF IInv, BatchMayInsert
  <2> QED
    BY <2>1, <2>2, <2>3, <2>4 DEF Admits
<1> QED
  BY <1>1, <1>2, <1>3 DEF FormMayInsert, BatchMayInsert

\* The table may lose rows without anybody being refused for it.
LEMMA FewerRowsKeep ==
  ASSUME IInv, rows' \in [Key -> Nat], \A k \in PayableKey : rows'[k] <= rows[k],
         UNCHANGED <<draft, made, at, doc, pick, load, plan, cut, since>>
  PROVE  IInv'
<1>1. \A k \in PayableKey : rows[k] \in Nat /\ rows'[k] \in Nat
  BY KeysApart DEF IInv, Types
<1>2. Types' /\ FormsAreSound' /\ CommittedIsBooked'
  BY DEF IInv, Types, FormsAreSound, CommittedIsBooked
<1>3. VendorNumberUnique'
  BY <1>1 DEF IInv, VendorNumberUnique
<1>4. \A k \in Key : Admits(k) => Admits(k)'
  BY <1>1, KeysApart DEF Admits
<1>5. ASSUME NEW t \in Tab PROVE FormMayInsert(t)'
  <2>1. at[t] = "insert" => pick[t] \in Key
    BY DEF IInv, FormsAreSound
  <2> QED
    BY <1>4, <2>1 DEF IInv, FormMayInsert, Admits
<1>6. ASSUME NEW b \in Batch PROVE BatchMayInsert(b)'
  BY <1>4, KeysApart DEF IInv, BatchMayInsert, Admits
<1> QED
  BY <1>2, <1>3, <1>5, <1>6 DEF IInv

\* One form moves, and the table, the batches and the other forms stay.
LEMMA FormMoves ==
  ASSUME IInv, NEW t \in Tab, Types', UNCHANGED <<rows, made, load, plan, cut>>, CommittedIsBooked',
         \A u \in Tab \ {t} : UNCHANGED <<at[u], doc[u], pick[u]>>,
         \A w \in Writer \ {t} : UNCHANGED since[w],
         at'[t] = "booked" => doc'[t] \in Draft /\ made[doc'[t]],
         at'[t] # "idle" => pick'[t] \in Key,
         FormMayInsert(t)'
  PROVE  IInv'
<1>1. FormsAreSound'
  BY DEF IInv, FormsAreSound
<1>2. VendorNumberUnique'
  BY DEF IInv, VendorNumberUnique
<1>3. ASSUME NEW u \in Tab PROVE FormMayInsert(u)'
  BY DEF IInv, FormMayInsert, Admits, Writer
<1>4. ASSUME NEW b \in Batch PROVE BatchMayInsert(b)'
  <2>1. b \in Writer \ {t}
    BY ActorsDiffer DEF Writer
  <2> QED
    BY <2>1 DEF IInv, BatchMayInsert, Admits
<1> QED
  BY <1>1, <1>2, <1>3, <1>4 DEF IInv

\* One batch moves, and the table, the forms and the other batches stay.
LEMMA BatchMoves ==
  ASSUME IInv, NEW b \in Batch, Types', UNCHANGED <<rows, draft, made, at, doc, pick>>,
         \A u \in Batch \ {b} : UNCHANGED <<load[u], plan[u], cut[u]>>,
         \A w \in Writer \ {b} : UNCHANGED since[w],
         BatchMayInsert(b)'
  PROVE  IInv'
<1>1. FormsAreSound' /\ VendorNumberUnique' /\ CommittedIsBooked'
  BY DEF IInv, FormsAreSound, VendorNumberUnique, CommittedIsBooked
<1>2. ASSUME NEW u \in Tab PROVE FormMayInsert(u)'
  <2>1. u \in Writer \ {b}
    BY ActorsDiffer DEF Writer
  <2> QED
    BY <2>1 DEF IInv, FormMayInsert, Admits
<1>3. ASSUME NEW u \in Batch PROVE BatchMayInsert(u)'
  BY DEF IInv, BatchMayInsert, Admits, Writer
<1> QED
  BY <1>1, <1>2, <1>3 DEF IInv

\* IInv is inductive: whatever is inserted is noted for those who have looked, and the
\* constraint admits what it admits.
THEOREM Safety == Spec => []IInv
<1> USE NoneIsNoId
<1>1. Init => IInv
  <2> SUFFICES ASSUME Init PROVE IInv
    OBVIOUS
  <2>1. /\ rows \in [Key -> Nat]
        /\ draft \in [Draft -> {"absent", "pending", "committed", "rejected"}]
        /\ at \in [Tab -> {"idle", "party", "check", "insert", "booked"}]
        /\ doc \in [Tab -> Draft \cup {None}] /\ pick \in [Tab -> Key \cup {None}]
        /\ load \in [Batch -> {"idle", "web", "service", "planned"}]
        /\ plan \in [Batch -> [PayableKey -> Nat]]
        /\ since \in [Writer -> SUBSET Key]
    BY DEF Init, NoFile
  <2>2. made \in [Draft -> BOOLEAN] /\ cut \in [Batch -> BOOLEAN]
    BY Zenon DEF Init
  <2>3. Types
    BY <2>1, <2>2 DEF Types
  <2>4. FormsAreSound /\ VendorNumberUnique /\ CommittedIsBooked
    BY KeysApart DEF Init, FormsAreSound, VendorNumberUnique, CommittedIsBooked
  <2>5. (\A t \in Tab : FormMayInsert(t)) /\ (\A b \in Batch : BatchMayInsert(b))
    BY DEF Init, FormMayInsert, BatchMayInsert
  <2> QED
    BY <2>3, <2>4, <2>5 DEF IInv
<1>2. IInv /\ [Next]_vars => IInv'
  <2> SUFFICES ASSUME IInv, [Next]_vars PROVE IInv'
    OBVIOUS
  <2>0. Types /\ FormsAreSound /\ VendorNumberUnique /\ CommittedIsBooked
    BY DEF IInv
  <2> USE DEF tables, drafts, tabs, batches, senders
  <2>f. rows \in [Key -> Nat] /\ \A k \in PayableKey : rows[k] <= rows[k]
    BY <2>0, KeysApart DEF Types
  \* Drafts, parties, and generated invoices' lines and mails.
  <2>1. ASSUME NEW d \in Draft, QueueDraft(d) \/ RejectDraft(d) PROVE IInv'
    <3>1. /\ UNCHANGED <<rows, made, at, doc, pick, load, plan, cut, since>>
          /\ draft' \in [Draft -> {"absent", "pending", "committed", "rejected"}]
          /\ \A e \in Draft : draft'[e] = "committed" => draft[e] = "committed"
      BY <2>0, <2>1 DEF QueueDraft, RejectDraft, Types
    <3>2. Types' /\ FormsAreSound' /\ VendorNumberUnique' /\ CommittedIsBooked'
      BY <2>0, <3>1 DEF Types, FormsAreSound, VendorNumberUnique, CommittedIsBooked
    <3>3. (\A t \in Tab : FormMayInsert(t)') /\ (\A b \in Batch : BatchMayInsert(b)')
      BY <3>1 DEF IInv, FormMayInsert, BatchMayInsert, Admits
    <3> QED
      BY <3>2, <3>3 DEF IInv
  <2>2. ASSUME NEW p \in Party, AddParty(p) PROVE IInv'
    BY <2>f, <2>2, FewerRowsKeep DEF AddParty
  <2>3. ASSUME NEW z \in Sender, StoreItems(z) \/ MailInvoice(z) PROVE IInv'
    BY <2>f, <2>3, FewerRowsKeep DEF StoreItems, MailInvoice
  <2>4. ASSUME NEW z \in Sender, NEW k \in ReceivableKey, ResendInvoice(z, k) PROVE IInv'
    BY <2>f, <2>4, FewerRowsKeep DEF ResendInvoice
  <2>5. ASSUME NEW k \in Key, DeleteInvoice(k) PROVE IInv'
    <3>1. rows' \in [Key -> Nat] /\ \A j \in PayableKey : rows'[j] <= rows[j]
      BY <2>0, <2>5, KeysApart DEF DeleteInvoice, Types
    <3> QED
      BY <2>5, <3>1, FewerRowsKeep DEF DeleteInvoice
  <2>6. CASE UNCHANGED vars
    BY <2>f, <2>6, FewerRowsKeep DEF vars
  \* The steps of a form.
  <2>r. ASSUME NEW t \in Tab, Return(t), UNCHANGED <<rows, made, load, plan, cut>>,
               draft' \in [Draft -> {"absent", "pending", "committed", "rejected"}],
               CommittedIsBooked'
        PROVE  IInv'
    <3>1. t \in Writer
      BY DEF Writer
    <3>2. /\ at' \in [Tab -> {"idle", "party", "check", "insert", "booked"}]
          /\ doc' \in [Tab -> Draft \cup {None}] /\ pick' \in [Tab -> Key \cup {None}]
          /\ since' \in [Writer -> SUBSET Key]
          /\ at'[t] = "idle"
          /\ \A u \in Tab \ {t} : UNCHANGED <<at[u], doc[u], pick[u]>>
          /\ \A w \in Writer \ {t} : UNCHANGED since[w]
      BY <2>0, <2>r, <3>1 DEF Return, Types
    <3>3. Types'
      BY <2>0, <2>r, <3>2 DEF Types
    <3>4. FormMayInsert(t)'
      BY <3>2 DEF FormMayInsert
    <3> QED
      BY <2>r, <3>2, <3>3, <3>4, FormMoves
  <2>c. ASSUME UNCHANGED <<draft, made>>
        PROVE  /\ draft' \in [Draft -> {"absent", "pending", "committed", "rejected"}]
               /\ CommittedIsBooked'
    BY <2>0, <2>c DEF Types, CommittedIsBooked
  <2>7. ASSUME NEW t \in Tab, NEW d \in Draft \cup {None}, NEW p \in Party, NEW n \in Number,
               NEW step \in {"check", "party"}, Pick(t, d, p, n, step)
        PROVE  IInv'
    <3>1. <<p, n>> \in Key
      BY DEF Key
    <3>2. /\ at' \in [Tab -> {"idle", "party", "check", "insert", "booked"}]
          /\ doc' \in [Tab -> Draft \cup {None}] /\ pick' \in [Tab -> Key \cup {None}]
          /\ at'[t] = step /\ pick'[t] \in Key
          /\ \A u \in Tab \ {t} : UNCHANGED <<at[u], doc[u], pick[u]>>
          /\ UNCHANGED <<rows, draft, made, load, plan, cut, since>>
      BY <2>0, <2>7, <3>1 DEF Pick, Types
    <3>3. Types'
      BY <2>0, <3>2 DEF Types
    <3>4. FormMayInsert(t)' /\ at'[t] # "booked"
      BY <3>2 DEF FormMayInsert
    <3> QED
      BY <2>c, <3>2, <3>3, <3>4, FormMoves
  <2>8. ASSUME NEW t \in Tab, EnsureParty(t) PROVE IInv'
    <3>1. CASE Return(t)
      BY <2>c, <2>r, <2>8, <3>1 DEF EnsureParty
    <3>2. ASSUME NEW p \in Party, pick' = [pick EXCEPT ![t] = <<p, @[2]>>],
                 at' = [at EXCEPT ![t] = "check"], UNCHANGED <<doc, since>>
          PROVE  IInv'
      <4>1. pick[t] \in Key
        BY <2>0, <2>8 DEF EnsureParty, FormsAreSound
      <4>2. <<p, pick[t][2]>> \in Key
        BY <4>1 DEF Key
      <4>3. /\ at' \in [Tab -> {"idle", "party", "check", "insert", "booked"}]
            /\ pick' \in [Tab -> Key \cup {None}]
            /\ at'[t] = "check" /\ pick'[t] \in Key
            /\ \A u \in Tab \ {t} : UNCHANGED <<at[u], doc[u], pick[u]>>
            /\ UNCHANGED <<rows, draft, made, load, plan, cut, since, doc>>
        BY <2>0, <2>8, <3>2, <4>2 DEF EnsureParty, Types
      <4>4. Types'
        BY <2>0, <4>3 DEF Types
      <4>5. FormMayInsert(t)' /\ at'[t] # "booked"
        BY <4>3 DEF FormMayInsert
      <4> QED
        BY <2>c, <4>3, <4>4, <4>5, FormMoves
    <3> QED
      BY <2>8, <3>1, <3>2 DEF EnsureParty, Party
  <2>9. ASSUME NEW t \in Tab, CheckDuplicate(t) PROVE IInv'
    <3>1. CASE Return(t)
      BY <2>c, <2>r, <2>9, <3>1 DEF CheckDuplicate
    <3>2. CASE /\ rows[pick[t]] = 0 /\ at' = [at EXCEPT ![t] = "insert"]
               /\ since' = [since EXCEPT ![t] = {}] /\ UNCHANGED <<doc, pick>>
      <4>1. t \in Writer /\ pick[t] \in Key
        BY <2>0, <2>9 DEF CheckDuplicate, FormsAreSound, Writer
      <4>2. /\ at' \in [Tab -> {"idle", "party", "check", "insert", "booked"}]
            /\ since' \in [Writer -> SUBSET Key]
            /\ at'[t] = "insert" /\ pick'[t] \in Key
            /\ \A u \in Tab \ {t} : UNCHANGED <<at[u], doc[u], pick[u]>>
            /\ \A w \in Writer \ {t} : UNCHANGED since[w]
            /\ UNCHANGED <<rows, draft, made, load, plan, cut, doc, pick>>
        BY <2>0, <2>9, <3>2, <4>1 DEF CheckDuplicate, Types
      <4>3. Types'
        BY <2>0, <4>2 DEF Types
      <4>4. FormMayInsert(t)' /\ at'[t] # "booked"
        BY <3>2, <4>2 DEF FormMayInsert, Admits
      <4> QED
        BY <2>c, <4>2, <4>3, <4>4, FormMoves
    <3> QED
      BY <2>9, <3>1, <3>2 DEF CheckDuplicate
  <2>10. ASSUME NEW t \in Tab, InsertInvoice(t) PROVE IInv'
    <3>1. CASE Return(t) /\ UNCHANGED <<rows, made>>
      BY <2>c, <2>r, <2>10, <3>1 DEF InsertInvoice
    <3>2. CASE Inserted(t) /\ Added({pick[t]}, t)
      <4>1. t \in Writer /\ pick[t] \in Key /\ at[t] = "insert"
        BY <2>0, <2>10 DEF InsertInvoice, FormsAreSound, Writer
      <4>2. /\ rows' \in [Key -> Nat]
            /\ \A k \in Key \ {pick[t]} : rows'[k] = rows[k]
            /\ pick[t] \in PayableKey => rows'[pick[t]] = 1
        BY <2>0, <3>2, <4>1, KeysApart DEF Inserted, Admits, Types
      <4>3. made' \in [Draft -> BOOLEAN]
        BY <2>0, <3>2, Zenon DEF Inserted, Types
      <4>4. (\A d \in Draft : made[d] => made'[d]) /\ (doc[t] \in Draft => made'[doc[t]])
        BY <2>0, <3>2 DEF Inserted, Types
      <4>5. /\ at' \in [Tab -> {"idle", "party", "check", "insert", "booked"}]
            /\ doc' \in [Tab -> Draft \cup {None}] /\ pick' \in [Tab -> Key \cup {None}]
            /\ \A u \in Tab \ {t} : UNCHANGED <<at[u], doc[u], pick[u]>>
            /\ \/ at'[t] = "booked" /\ doc[t] \in Draft /\ UNCHANGED <<doc[t], pick[t]>>
               \/ at'[t] = "idle"
        <5>1. CASE doc[t] \in Draft /\ at' = [at EXCEPT ![t] = "booked"] /\ UNCHANGED <<doc, pick>>
          BY <2>0, <5>1 DEF Types
        <5>2. CASE /\ at' = [at EXCEPT ![t] = "idle"] /\ doc' = [doc EXCEPT ![t] = None]
                   /\ pick' = [pick EXCEPT ![t] = None]
          BY <2>0, <5>2 DEF Types
        <5>3. at' # [at EXCEPT ![t] = "booked"] => at' = [at EXCEPT ![t] = "idle"]
          BY <2>10 DEF InsertInvoice, Return
        <5>4. \/ doc[t] \in Draft /\ at' = [at EXCEPT ![t] = "booked"] /\ UNCHANGED <<doc, pick>>
              \/ /\ at' = [at EXCEPT ![t] = "idle"] /\ doc' = [doc EXCEPT ![t] = None]
                 /\ pick' = [pick EXCEPT ![t] = None]
          BY <2>10 DEF InsertInvoice, Return
        <5> QED
          BY <5>1, <5>2, <5>4
      <4>6. UNCHANGED <<draft, load, plan, cut>>
        BY <2>10 DEF InsertInvoice
      <4>7. /\ since' \in [Writer -> SUBSET Key]
            /\ \A u \in Tab \ {t} : UNCHANGED <<at[u], pick[u]>> => FormMayInsert(u)'
            /\ \A b \in Batch \ {t} : UNCHANGED <<load[b], plan[b], cut[b]>> => BatchMayInsert(b)'
        <5>1. \A k \in PayableKey \ {pick[t]} : rows'[k] <= rows[k]
          BY <2>0, <4>2, KeysApart DEF Types
        <5> QED
          BY <3>2, <4>1, <4>2, <5>1, AddedIsMissed
      <4>8. Types'
        BY <2>0, <4>2, <4>3, <4>5, <4>6, <4>7 DEF Types
      <4>9. FormsAreSound'
        BY <2>0, <4>1, <4>4, <4>5 DEF FormsAreSound
      <4>10. VendorNumberUnique'
        BY <2>0, <4>2, KeysApart DEF VendorNumberUnique
      <4>11. CommittedIsBooked'
        BY <2>0, <4>4, <4>6 DEF CommittedIsBooked
      <4>12. ASSUME NEW u \in Tab PROVE FormMayInsert(u)'
        BY <4>5, <4>7 DEF FormMayInsert
      <4>13. ASSUME NEW b \in Batch PROVE BatchMayInsert(b)'
        BY <4>6, <4>7, ActorsDiffer
      <4> QED
        BY <4>8, <4>9, <4>10, <4>11, <4>12, <4>13 DEF IInv
    <3> QED
      BY <2>10, <3>1, <3>2 DEF InsertInvoice
  <2>11. ASSUME NEW t \in Tab, MarkCommitted(t) PROVE IInv'
    <3>1. doc[t] \in Draft /\ made[doc[t]]
      BY <2>0, <2>11 DEF MarkCommitted, FormsAreSound
    <3>2. draft' \in [Draft -> {"absent", "pending", "committed", "rejected"}] /\ CommittedIsBooked'
      BY <2>0, <2>11, <3>1 DEF MarkCommitted, Types, CommittedIsBooked
    <3> QED
      BY <2>r, <2>11, <3>2 DEF MarkCommitted
  \* The steps of a batch.
  <2>12. ASSUME NEW b \in Batch, NEW f \in File, PreviewFile(b, f) \/ SubmitFile(b, f) PROVE IInv'
    <3>1. f \in [PayableKey -> Nat]
      BY FilesAreBags
    <3>2. /\ load' \in [Batch -> {"idle", "web", "service", "planned"}]
          /\ plan' \in [Batch -> [PayableKey -> Nat]]
          /\ load'[b] # "planned"
          /\ \A u \in Batch \ {b} : UNCHANGED <<load[u], plan[u], cut[u]>>
          /\ UNCHANGED <<rows, draft, made, at, doc, pick, cut, since>>
      <4>1. CASE PreviewFile(b, f)
        BY <2>0, <4>1 DEF PreviewFile, Types
      <4>2. CASE SubmitFile(b, f)
        <5>1. plan' = [plan EXCEPT ![b] = f] /\ load' = [load EXCEPT ![b] = "service"]
          BY <4>2 DEF SubmitFile
        <5>2. plan' \in [Batch -> [PayableKey -> Nat]]
          BY <2>0, <3>1, <5>1 DEF Types
        <5> QED
          BY <2>0, <4>2, <5>1, <5>2 DEF SubmitFile, Types
      <4> QED
        BY <2>12, <4>1, <4>2
    <3>3. Types' /\ BatchMayInsert(b)'
      BY <2>0, <3>2 DEF Types, BatchMayInsert
    <3> QED
      BY <3>2, <3>3, BatchMoves
  <2>13. ASSUME NEW b \in Batch, NEW seen \in SUBSET Key, PlanImport(b, seen) PROVE IInv'
    <3>1. b \in Writer /\ Wanted(file[b], seen) \in [PayableKey -> Nat]
          /\ \A k \in PayableKey : Wanted(file[b], seen)[k] > 0 =>
               Wanted(file[b], seen)[k] = 1 /\ k \notin seen
      BY DEF Writer, Wanted
    <3>2. /\ load' = [load EXCEPT ![b] = "planned"]
          /\ plan' = [plan EXCEPT ![b] = Wanted(file[b], seen)]
          /\ cut' = [cut EXCEPT ![b] = seen # Entered]
          /\ since' = [since EXCEPT ![b] = {}]
          /\ UNCHANGED <<rows, draft, made, at, doc, pick>>
      BY <2>13 DEF PlanImport
    <3>3. cut' \in [Batch -> BOOLEAN]
      BY <2>0, <3>2, Zenon DEF Types
    <3>4. /\ load' \in [Batch -> {"idle", "web", "service", "planned"}]
          /\ plan' \in [Batch -> [PayableKey -> Nat]]
          /\ since' \in [Writer -> SUBSET Key]
          /\ \A u \in Batch \ {b} : UNCHANGED <<load[u], plan[u], cut[u]>>
          /\ \A w \in Writer \ {b} : UNCHANGED since[w]
          /\ plan'[b] = Wanted(file[b], seen)
          /\ ~cut'[b] => seen = Entered
      BY <2>0, <3>1, <3>2 DEF Types
    <3>5. Types'
      BY <2>0, <3>2, <3>3, <3>4 DEF Types
    <3>6. ASSUME NEW k \in PayableKey, plan'[b][k] > 0
          PROVE  plan'[b][k] = 1 /\ (Admits(k)' \/ cut'[b])
      <4>1. k \in Key /\ rows[k] \in Nat /\ rows'[k] = rows[k]
        BY <2>0, <3>2, KeysApart DEF Types
      <4>2. k \notin seen /\ plan'[b][k] = 1
        BY <3>1, <3>4, <3>6
      <4> QED
        BY <3>4, <4>1, <4>2 DEF Entered, Admits
    <3>7. BatchMayInsert(b)'
      BY <3>6 DEF BatchMayInsert
    <3> QED
      BY <3>2, <3>4, <3>5, <3>7, BatchMoves
  <2>14. ASSUME NEW b \in Batch, InsertBatch(b) PROVE IInv'
    <3> DEFINE K == {k \in PayableKey : plan[b][k] > 0}
    <3>1. b \in Writer /\ b \notin Tab /\ K \subseteq Key
      BY ActorsDiffer, KeysApart DEF Writer
    <3>2. /\ load' = [load EXCEPT ![b] = "idle"]
          /\ plan' = [plan EXCEPT ![b] = NoFile]
          /\ cut' = [cut EXCEPT ![b] = FALSE]
          /\ UNCHANGED <<draft, made, at, doc, pick>>
      BY <2>14 DEF InsertBatch
    <3>3. cut' \in [Batch -> BOOLEAN]
      BY <2>0, <3>2, Zenon DEF Types
    <3>4. /\ load' \in [Batch -> {"idle", "web", "service", "planned"}]
          /\ plan' \in [Batch -> [PayableKey -> Nat]]
          /\ load'[b] = "idle"
          /\ \A u \in Batch \ {b} : UNCHANGED <<load[u], plan[u], cut[u]>>
      BY <2>0, <3>2 DEF Types, NoFile
    <3>5. BatchMayInsert(b)'
      BY <3>4 DEF BatchMayInsert
    <3>6. CASE rows' = rows /\ since' = [since EXCEPT ![b] = {}]
      <4>1. since' \in [Writer -> SUBSET Key] /\ \A w \in Writer \ {b} : UNCHANGED since[w]
        BY <2>0, <3>1, <3>6 DEF Types
      <4>2. Types'
        BY <2>0, <3>2, <3>3, <3>4, <3>6, <4>1 DEF Types
      <4> QED
        BY <3>2, <3>4, <3>5, <3>6, <4>1, <4>2, BatchMoves
    <3>7. CASE /\ Fits(plan[b]) /\ Added(K, b)
               /\ rows' = [k \in Key |-> IF k \in K THEN rows[k] + plan[b][k] ELSE rows[k]]
      <4>1. /\ rows' \in [Key -> Nat]
            /\ \A k \in PayableKey : k \notin K => rows'[k] <= rows[k]
            /\ \A k \in PayableKey : k \in K => rows'[k] = 1
        BY <2>0, <3>7, KeysApart DEF Types, Fits, Admits
      <4>2. /\ since' \in [Writer -> SUBSET Key]
            /\ \A t \in Tab \ {b} : UNCHANGED <<at[t], pick[t]>> => FormMayInsert(t)'
            /\ \A u \in Batch \ {b} : UNCHANGED <<load[u], plan[u], cut[u]>> => BatchMayInsert(u)'
        <5> HIDE DEF K
        <5> QED
          BY <3>1, <3>7, <4>1, AddedIsMissed
      <4>3. Types'
        BY <2>0, <3>2, <3>3, <3>4, <4>1, <4>2 DEF Types
      <4>4. FormsAreSound' /\ CommittedIsBooked'
        BY <2>0, <3>2 DEF FormsAreSound, CommittedIsBooked
      <4>5. VendorNumberUnique'
        <5> SUFFICES ASSUME NEW k \in PayableKey PROVE rows'[k] <= 1
          BY DEF VendorNumberUnique
        <5>1. rows[k] \in Nat /\ rows'[k] \in Nat /\ rows[k] <= 1
          BY <2>0, <4>1, KeysApart DEF Types, VendorNumberUnique
        <5> HIDE DEF K
        <5> QED
          BY <4>1, <5>1
      <4>6. ASSUME NEW t \in Tab PROVE FormMayInsert(t)'
        BY <3>1, <3>2, <4>2
      <4>7. ASSUME NEW u \in Batch PROVE BatchMayInsert(u)'
        BY <3>4, <3>5, <4>2
      <4> QED
        BY <4>3, <4>4, <4>5, <4>6, <4>7 DEF IInv
    <3> QED
      BY <2>14, <3>6, <3>7 DEF InsertBatch
  \* A generated invoice.
  <2>15. ASSUME NEW z \in Sender, NEW k \in ReceivableKey, GenerateInvoice(z, k) PROVE IInv'
    <3>1. z \notin Writer /\ k \in Key /\ k \notin PayableKey
      BY ActorsDiffer, KeysApart
    <3>2. /\ rows' \in [Key -> Nat] /\ \A j \in PayableKey : rows'[j] = rows[j]
          /\ \A j \in PayableKey \ {k} : rows'[j] <= rows[j]
      BY <2>0, <2>15, <3>1, KeysApart DEF GenerateInvoice, Types
    <3>3. Added({k}, z) /\ UNCHANGED <<draft, made, at, doc, pick, load, plan, cut>>
      BY <2>15 DEF GenerateInvoice
    <3>4. /\ since' \in [Writer -> SUBSET Key]
          /\ \A t \in Tab \ {z} : UNCHANGED <<at[t], pick[t]>> => FormMayInsert(t)'
          /\ \A b \in Batch \ {z} : UNCHANGED <<load[b], plan[b], cut[b]>> => BatchMayInsert(b)'
      BY <3>1, <3>2, <3>3, AddedIsMissed
    <3>5. Types'
      BY <2>0, <3>2, <3>3, <3>4 DEF Types
    <3>6. FormsAreSound' /\ CommittedIsBooked' /\ VendorNumberUnique'
      BY <2>0, <3>2, <3>3 DEF FormsAreSound, CommittedIsBooked, VendorNumberUnique
    <3>7. (\A t \in Tab : FormMayInsert(t)') /\ (\A b \in Batch : BatchMayInsert(b)')
      BY <3>1, <3>3, <3>4 DEF Writer
    <3> QED
      BY <3>5, <3>6, <3>7 DEF IInv
  <2>16. ASSUME NEW t \in Tab, NEW p \in Party, NEW n \in Number,
                (\E d \in Draft : CommitDraft(t, d, p, n)) \/ EnterByHand(t, p, n)
         PROVE  IInv'
    <3>1. ASSUME NEW d \in Draft, CommitDraft(t, d, p, n) PROVE IInv'
      BY <2>7, <3>1 DEF CommitDraft
    <3>2. CASE EnterByHand(t, p, n)
      BY <2>7, <3>2 DEF EnterByHand
    <3> QED
      BY <2>16, <3>1, <3>2
  <2> QED
    BY <2>1, <2>2, <2>3, <2>4, <2>5, <2>6, <2>8, <2>9, <2>10, <2>11, <2>12, <2>13, <2>14,
       <2>15, <2>16 DEF Next
<1> QED
  BY <1>1, <1>2, PTL DEF Spec

\* However looks and inserts interleave, a vendor has one invoice of a number.
THEOREM VendorNumbersAreUnique == Spec => []VendorNumberUnique
<1>1. IInv => VendorNumberUnique
  BY DEF IInv
<1> QED
  BY <1>1, Safety, PTL

\* A committed draft has produced an invoice, for any number of forms and failures.
THEOREM CommittedDraftsAreBooked == Spec => []CommittedIsBooked
<1>1. IInv => CommittedIsBooked
  BY DEF IInv
<1> QED
  BY <1>1, Safety, PTL

\* Whoever has looked is refused only for what was inserted since, or was not read.
THEOREM RefusalsAreRaces == Spec => []RefusalMeansRace
<1>1. IInv => RefusalMeansRace
  BY DEF IInv, RefusalMeansRace, FormMayInsert, BatchMayInsert
<1> QED
  BY <1>1, Safety, PTL

\* The rest of TypeOK: the parties, the files and the senders, on which nothing above
\* depends.
OtherTypes ==
  /\ known \in SUBSET Party
  /\ bare \in [Key -> Nat]
  /\ file \in [Batch -> [PayableKey -> Nat]]
  /\ send \in [Sender -> {"idle", "items", "mail", "blank"}]
  /\ bill \in [Sender -> Key \cup {None}]

\* Every variable of the intake keeps its type, in every step of the forms, the
\* batches and the senders.
THEOREM TypeCorrect == Spec => []TypeOK
<1>1. Init => OtherTypes
  BY DEF Init, OtherTypes, Party, NoFile
<1>2. OtherTypes /\ [Next]_vars => OtherTypes'
  <2> SUFFICES ASSUME OtherTypes, [Next]_vars PROVE OtherTypes'
    OBVIOUS
  <2> USE DEF OtherTypes
  <2>1. CASE UNCHANGED <<known, bare, file, send, bill>>
    BY <2>1
  <2>2. ASSUME NEW p \in Party, AddParty(p) PROVE OtherTypes'
    BY <2>2 DEF AddParty, batches, senders
  <2>3. ASSUME NEW t \in Tab, EnsureParty(t) PROVE OtherTypes'
    <3>1. Vendor \subseteq Party /\ Customer \subseteq Party
      BY DEF Party
    <3>2. known' \in SUBSET Party
      BY <2>3, <3>1 DEF EnsureParty
    <3> QED
      BY <2>3, <3>2 DEF EnsureParty, batches, senders
  <2>4. ASSUME NEW b \in Batch, NEW f \in File, PreviewFile(b, f) PROVE OtherTypes'
    <3>1. Recognised(f) \in [PayableKey -> Nat]
      BY FilesAreBags DEF Recognised
    <3> QED
      BY <2>4, <3>1 DEF PreviewFile, tables, senders
  <2>5. ASSUME NEW b \in Batch, NEW seen, PlanImport(b, seen) PROVE OtherTypes'
    <3>1. NoFile \in [PayableKey -> Nat]
      BY DEF NoFile
    <3> QED
      BY <2>5, <3>1 DEF PlanImport, tables, senders
  <2>6. ASSUME NEW s \in Sender, NEW k \in ReceivableKey, GenerateInvoice(s, k)
        PROVE  OtherTypes'
    <3>1. k \in Key
      BY KeysApart
    <3> QED
      BY <2>6, <3>1 DEF GenerateInvoice, batches
  <2>7. ASSUME NEW s \in Sender, NEW k \in ReceivableKey, ResendInvoice(s, k)
        PROVE  OtherTypes'
    <3>1. k \in Key
      BY KeysApart
    <3> QED
      BY <2>7, <3>1 DEF ResendInvoice, tables, batches
  <2>8. ASSUME NEW s \in Sender, StoreItems(s) PROVE OtherTypes'
    BY <2>8 DEF StoreItems, batches
  <2>9. ASSUME NEW s \in Sender, MailInvoice(s) PROVE OtherTypes'
    BY <2>9 DEF MailInvoice, tables, batches
  <2>10. ASSUME NEW k \in Key, DeleteInvoice(k) PROVE OtherTypes'
    BY <2>10 DEF DeleteInvoice, batches, senders
  <2>11. ASSUME NEW d \in Draft, QueueDraft(d) \/ RejectDraft(d) PROVE OtherTypes'
    BY <2>1, <2>11 DEF QueueDraft, RejectDraft, tables, batches, senders
  <2>12. ASSUME NEW t \in Tab, NEW p, NEW n,
                (\E d \in Draft : CommitDraft(t, d, p, n)) \/ EnterByHand(t, p, n)
         PROVE  OtherTypes'
    BY <2>1, <2>12 DEF CommitDraft, EnterByHand, Pick, tables, batches, senders
  <2>13. ASSUME NEW t \in Tab, CheckDuplicate(t) \/ InsertInvoice(t) \/ MarkCommitted(t)
         PROVE  OtherTypes'
    BY <2>1, <2>13 DEF CheckDuplicate, InsertInvoice, MarkCommitted, tables, batches, senders
  <2>14. ASSUME NEW b \in Batch, NEW f \in File, SubmitFile(b, f) PROVE OtherTypes'
    BY <2>1, <2>14 DEF SubmitFile, tables, senders
  <2>15. ASSUME NEW b \in Batch, InsertBatch(b) PROVE OtherTypes'
    BY <2>1, <2>15 DEF InsertBatch, senders
  <2>16. CASE UNCHANGED vars
    BY <2>1, <2>16 DEF vars, tables, batches, senders
  <2> QED
    BY <2>2, <2>3, <2>4, <2>5, <2>6, <2>7, <2>8, <2>9, <2>10, <2>11, <2>12, <2>13, <2>14,
       <2>15, <2>16 DEF Next
<1>3. IInv /\ OtherTypes => TypeOK
  BY DEF IInv, Types, OtherTypes, TypeOK
<1> QED
  BY <1>1, <1>2, <1>3, Safety, PTL DEF Spec

-----------------------------------------------------------------------------
\* The least of some confidences is one of them.
LEMMA MinIsLeast ==
  ASSUME NEW T \in SUBSET Nat, T # {}
  PROVE  Sets!Min(T) \in T /\ \A y \in T : Sets!Min(T) <= y
<1>1. PICK x \in T : \A y \in T : ~(<<y, x>> \in OpToRel(<, Nat))
  BY WFMin, NatLessThanWellFounded
<1>2. ASSUME NEW y \in T PROVE x <= y
  <2>1. x \in Nat /\ y \in Nat /\ ~(y < x)
    BY <1>1 DEF OpToRel
  <2> QED
    BY <2>1
<1>3. \E z \in T : \A y \in T : z <= y
  BY <1>2
<1> QED
  BY <1>3 DEF Sets!Min

\* No field is surer than its reader, nor than the worst page that was scanned.
LEMMA CappedIsBelow ==
  ASSUME NEW p \in Document, NEW up, NEW base \in Nat
  PROVE  /\ Capped(p, up, base) \in Nat /\ Capped(p, up, base) <= base
         /\ \A i \in Scanned(p) : Capped(p, up, base) <= PageConfidence(p, up, i)
<1> DEFINE T == {base} \cup {PageConfidence(p, up, i) : i \in Scanned(p)}
<1>1. \A i \in Scanned(p) : PageConfidence(p, up, i) \in Nat
  BY DocumentsAreRead DEF Scanned, Kept, PageConfidence
<1>2. T \in SUBSET Nat /\ base \in T
  BY <1>1
<1>3. Sets!Min(T) \in T /\ \A y \in T : Sets!Min(T) <= y
  <2> HIDE DEF T
  <2> QED
    BY <1>2, MinIsLeast
<1>4. Capped(p, up, base) = Sets!Min(T)
  BY DEF Capped
<1> QED
  BY <1>2, <1>3, <1>4

\* Whatever is called valid may be trusted, for any document.
LEMMA ValidWasWellRead ==
  ASSUME NEW p \in Document, NEW up \in SUBSET Service, NEW numbers,
         Process(p, up, numbers).valid
  PROVE  Trustworthy(p, up)
<1> DEFINE base == IF ByModel(p, up) THEN LlmBase ELSE RegexBase
<1>1. /\ LlmBase \in Nat /\ RegexBase \in Nat /\ ConfOther \in Nat /\ ConfFinancial \in Nat
      /\ RegexBase < ConfOther /\ 0 < ConfOther /\ ConfOther <= ConfFinancial
      /\ MaxPages \in Nat
  BY ConfidenceScale
<1>2. Validated(p, up)
  BY DEF Process
<1>3. ASSUME NEW f \in Field \ Informational
      PROVE  Reading(p, up).field[f] # None /\ Capped(p, up, base) >= Needed(f)
  <2>1. ~(Confidence(p, up, f) < Needed(f)) /\ Needed(f) \in Nat /\ Needed(f) > 0
    BY <1>1, <1>2, <1>3 DEF Validated, LowConfidence, Needed
  <2>2. Reading(p, up).field[f] # None
    BY <2>1 DEF Confidence
  <2>3. Confidence(p, up, f) = Capped(p, up, base)
    BY <2>2 DEF Confidence
  <2>4. Capped(p, up, base) \in Nat
    BY <1>1, CappedIsBelow
  <2> HIDE DEF base
  <2> QED
    BY <2>1, <2>2, <2>3, <2>4
<1>4. ByModel(p, up)
  <2>1. Capped(p, up, base) >= ConfOther
    BY <1>3 DEF Field, Informational, Needed, Financial
  <2>2. Capped(p, up, base) \in Nat /\ Capped(p, up, base) <= base
    BY <1>1, CappedIsBelow
  <2>3. ASSUME ~ByModel(p, up) PROVE FALSE
    <3>1. base = RegexBase
      BY <2>3
    <3> HIDE DEF base
    <3> QED
      BY <1>1, <2>1, <2>2, <3>1
  <2> QED
    BY <2>3
<1>5. "llm" \in up /\ p.llm # None /\ Reading(p, up) = p.llm
  BY <1>4 DEF ByModel, Reading
<1>6. ASSUME NEW i \in DOMAIN p.pages, ~(i > MaxPages), ~p.pages[i].layer
      PROVE  "engine" \in up /\ p.pages[i].conf >= ConfFinancial
  <2>1. i \in Scanned(p)
    BY <1>1, <1>6, DocumentsAreRead DEF Scanned, Kept
  <2>2. /\ Capped(p, up, base) \in Nat
        /\ Capped(p, up, base) <= PageConfidence(p, up, i)
    BY <1>1, <2>1, CappedIsBelow
  <2>3. Capped(p, up, base) >= ConfFinancial
    BY <1>3 DEF Field, Informational, Needed, Financial
  <2>4. PageConfidence(p, up, i) = IF "engine" \in up THEN p.pages[i].conf ELSE 0
    BY <1>6 DEF PageConfidence
  <2>5. p.pages[i].conf \in 0..100
    BY DocumentsAreRead
  <2> HIDE DEF base
  <2> QED
    BY <1>1, <2>2, <2>3, <2>4, <2>5
<1>7. ASSUME NEW f \in Field, p.llm.field[f] = None PROVE f \in Informational
  BY <1>3, <1>5, <1>7
<1>8. ASSUME p.llm.items # None
      PROVE  p.llm.items + p.llm.field["tax_amount"] = p.llm.field["amount"]
  <2>1. p.llm.field["amount"] # None /\ p.llm.field["tax_amount"] # None
    BY <1>7 DEF Field, Informational
  <2>2. NetAmount(p.llm) = p.llm.field["amount"] - p.llm.field["tax_amount"]
    BY <2>1 DEF NetAmount
  <2>3. /\ p.llm.items \in Int /\ p.llm.field["amount"] \in Int
        /\ p.llm.field["tax_amount"] \in Int
    BY <1>5, <1>8, <2>1, DocumentsAreRead
  <2>4. p.llm.items = IF NetAmount(p.llm) = None THEN 0 ELSE NetAmount(p.llm)
    BY <1>2, <1>5, <1>8 DEF Validated, ItemsDiffer
  <2>5. p.llm.items = p.llm.field["amount"] - p.llm.field["tax_amount"]
    BY <2>2, <2>3, <2>4, NoneIsNoAmount
  <2> QED
    BY <2>3, <2>5
<1> QED
  BY <1>5, <1>6, <1>7, <1>8 DEF Trustworthy

\* For any documents, any services that fail and whatever the table holds, what is
\* handed back for committing was well read.
THEOREM ValidIsAlwaysTrustworthy == Spec => []ValidIsTrustworthy
<1>1. ASSUME NEW numbers \in SUBSET Number PROVE <<numbers, {}>> \in Misjudged
  <2>1. {p \in Document : \E up \in SUBSET Service :
            Process(p, up, numbers).valid /\ ~Trustworthy(p, up)} = {}
    BY ValidWasWellRead
  <2> QED
    BY <2>1 DEF Misjudged
<1>2. {k[2] : k \in Entered} \in SUBSET Number
  BY DEF Entered, Key
<1>3. ValidIsTrustworthy
  BY <1>1, <1>2 DEF ValidIsTrustworthy
<1> QED
  BY <1>3, PTL

-----------------------------------------------------------------------------
(***************************************************************************)
(* The money on a generated invoice (Gst.tla), for every bill.             *)
(***************************************************************************)

\* A bill as splitTax reads it, and what it makes of the lines of one kind.
Lines(b) == /\ Len(b) \in Nat /\ DOMAIN b = 1..Len(b)
            /\ \A n \in DOMAIN b : b[n].value \in Nat /\ Rate(b[n]) \in Nat

Kinds(b) == {<<b[n].hsn, Rate(b[n])>> : n \in DOMAIN b}
Alike(b, k) == {n \in DOMAIN b : b[n].hsn = k[1] /\ Rate(b[n]) = k[2]}
Tax(b, k) == (Total(b, Alike(b, k)) * k[2] + 50) \div 100
Row(b, k, same) ==
  [hsn |-> k[1], rate |-> k[2], taxable |-> Total(b, Alike(b, k)),
   cgst |-> IF same THEN Half(Tax(b, k)) ELSE 0, sgst |-> IF same THEN Half(Tax(b, k)) ELSE 0,
   igst |-> IF same THEN 0 ELSE Tax(b, k), tax |-> Collected(Tax(b, k), same)]

\* Amounts are whole.
LEMMA TotalIsNatural ==
  ASSUME NEW b, Lines(b), NEW I \in SUBSET DOMAIN b
  PROVE  IsFiniteSet(I) /\ Total(b, I) \in Nat
<1> DEFINE f == [n \in I |-> b[n].value]
<1>1. IsFiniteSet(I)
  <2>1. DOMAIN b = 1..Len(b) /\ Len(b) \in Int
    BY DEF Lines
  <2>2. IsFiniteSet(1..Len(b))
    BY <2>1, FS_Interval
  <2> QED
    BY <2>1, <2>2, FS_Subset
<1>2. \A n \in I : f[n] \in Nat
  BY DEF Lines
<1> HIDE DEF f
<1>3. Sum(f, I) \in Nat
  BY <1>1, <1>2, SumIsNatural
<1> QED
  BY <1>1, <1>3 DEF Total, f

\* There are as many kinds as lines at most.
LEMMA KindsAreFinite ==
  ASSUME NEW b, Lines(b)
  PROVE  IsFiniteSet(Kinds(b)) /\ \A k \in Kinds(b) : k[2] \in Nat /\ k = <<k[1], k[2]>>
<1> DEFINE kind == [n \in DOMAIN b |-> <<b[n].hsn, Rate(b[n])>>]
<1>1. IsFiniteSet(DOMAIN b)
  BY FS_Interval DEF Lines
<1>2. /\ \A n \in DOMAIN b : kind[n] \in Kinds(b)
      /\ \A k \in Kinds(b) : \E n \in DOMAIN b : kind[n] = k
  BY DEF Kinds
<1> HIDE DEF kind
<1>3. IsFiniteSet(Kinds(b))
  BY <1>1, <1>2, ImageIsFinite
<1> QED
  BY <1>3 DEF Kinds, Lines

\* Rounding: to the next paisa, and a tax to its two halves.
LEMMA TaxIsRounded ==
  ASSUME NEW t \in Nat, NEW r \in Nat
  PROVE  LET tax == (t * r + 50) \div 100
         IN  tax \in Nat /\ 100 * tax <= t * r + 50 /\ t * r < 100 * tax + 50
<1> DEFINE y == t * r
<1>1. y \in Nat
  OBVIOUS
<1> HIDE DEF y
<1>2. (y + 50) \div 100 \in Nat /\ 100 * ((y + 50) \div 100) <= y + 50
      /\ y < 100 * ((y + 50) \div 100) + 50
  BY <1>1
<1> QED
  BY <1>2 DEF y

\* What is collected is the tax or a paisa more.
LEMMA HalvesAreClose ==
  ASSUME NEW tax \in Nat
  PROVE  /\ Half(tax) \in Nat /\ 2 * Half(tax) \in {tax, tax + 1}
         /\ \A same : Collected(tax, same) \in {tax, tax + 1}
BY DEF Half, Collected

\* The groups are those of the kinds.
LEMMA SplitByKind ==
  ASSUME NEW b, NEW same
  PROVE  SplitTax(b, same) = {Row(b, k, same) : k \in Kinds(b)}
<1> DEFINE Like(n) == {k \in DOMAIN b : b[k].hsn = b[n].hsn /\ Rate(b[k]) = Rate(b[n])}
<1>1. SplitTax(b, same) = {Group(b, Like(n), same) : n \in DOMAIN b}
  BY DEF SplitTax
<1>2. ASSUME NEW n \in DOMAIN b
      PROVE  Group(b, Like(n), same) = Row(b, <<b[n].hsn, Rate(b[n])>>, same)
  <2> DEFINE m == CHOOSE k \in Like(n) : TRUE
             kind == <<b[n].hsn, Rate(b[n])>>
  <2>1. n \in Like(n) /\ m \in Like(n)
    OBVIOUS
  <2>2. b[m].hsn = kind[1] /\ Rate(b[m]) = kind[2]
    BY <2>1
  <2>3. Like(n) = Alike(b, kind)
    BY DEF Alike
  <2>4. Group(b, Like(n), same) =
          LET tax == (Total(b, Like(n)) * Rate(b[m]) + 50) \div 100
          IN  [hsn |-> b[m].hsn, rate |-> Rate(b[m]), taxable |-> Total(b, Like(n)),
               cgst |-> IF same THEN Half(tax) ELSE 0, sgst |-> IF same THEN Half(tax) ELSE 0,
               igst |-> IF same THEN 0 ELSE tax, tax |-> Collected(tax, same)]
    BY DEF Group
  <2> HIDE DEF m, kind, Like
  <2> QED
    BY <2>2, <2>3, <2>4, Zenon DEF Row, Tax, kind
<1> HIDE DEF Like
<1> QED
  BY <1>1, <1>2 DEF Kinds

\* So a sum over the groups is one over the kinds.
LEMMA SumByKind ==
  ASSUME NEW b, Lines(b), NEW same, NEW f, NEW g,
         \A k \in Kinds(b) : f[k] \in Int /\ g[Row(b, k, same)] = f[k]
  PROVE  /\ IsFiniteSet(SplitTax(b, same)) /\ Cardinality(SplitTax(b, same)) = Cardinality(Kinds(b))
         /\ Sum(g, SplitTax(b, same)) = Sum(f, Kinds(b))
<1> DEFINE K == Kinds(b)
           T == SplitTax(b, same)
           image == [k \in K |-> Row(b, k, same)]
<1>1. IsFiniteSet(K) /\ \A k \in K : k = <<k[1], k[2]>>
  BY KindsAreFinite
<1>2. T = {Row(b, k, same) : k \in K}
  BY SplitByKind
<1>3. \A k \in K : Row(b, k, same).hsn = k[1] /\ Row(b, k, same).rate = k[2]
  BY DEF Row
<1> HIDE DEF K, T
<1>4. /\ \A k \in K : image[k] \in T /\ image[k] = Row(b, k, same)
      /\ \A z \in T : \E k \in K : image[k] = z
  BY <1>2
<1> HIDE DEF image
<1>5. \A k, l \in K : k # l => image[k] # image[l]
  BY <1>1, <1>3, <1>4
<1>6. \A k \in K : g[image[k]] = f[k] /\ f[k] \in Int
  BY <1>4 DEF K
<1>7. image \in Bijection(K, T)
  BY <1>4, <1>5 DEF image, Bijection, Injection, IsInjective, Surjection
<1>9. IsFiniteSet(T) /\ Cardinality(T) = Cardinality(K) /\ Sum(g, T) = Sum(f, K)
  BY <1>1, <1>6, <1>7, SumOfImage
<1> QED
  BY <1>9 DEF K, T

\* What is collected on a bill, kind by kind; it is what its columns print.
Levied(b, same) == [k \in Kinds(b) |-> Collected(Tax(b, k), same)]
Levy(b, same) == Sum(Levied(b, same), Kinds(b))

\* A kind's tax is what is due, rounded to the next paisa, and at most one more is collected.
LEMMA TaxOfKind ==
  ASSUME NEW b, Lines(b), NEW k \in Kinds(b)
  PROVE  /\ Total(b, Alike(b, k)) \in Nat /\ k[2] \in Nat /\ Tax(b, k) \in Nat
         /\ 100 * Tax(b, k) <= Total(b, Alike(b, k)) * k[2] + 50
         /\ Total(b, Alike(b, k)) * k[2] < 100 * Tax(b, k) + 50
         /\ \A same : Levied(b, same)[k] \in {Tax(b, k), Tax(b, k) + 1}
<1>1. Total(b, Alike(b, k)) \in Nat /\ k[2] \in Nat
  BY TotalIsNatural, KindsAreFinite DEF Alike
<1>2. /\ Tax(b, k) \in Nat /\ 100 * Tax(b, k) <= Total(b, Alike(b, k)) * k[2] + 50
      /\ Total(b, Alike(b, k)) * k[2] < 100 * Tax(b, k) + 50
  BY <1>1, TaxIsRounded DEF Tax
<1>3. \A same : Collected(Tax(b, k), same) \in {Tax(b, k), Tax(b, k) + 1}
  BY <1>2, HalvesAreClose
<1> QED
  BY <1>1, <1>2, <1>3 DEF Levied

\* Both the tax that generateAndSendInvoice stores and the columns under it are the levy.
LEMMA LevyIsPrinted ==
  ASSUME NEW b, Lines(b), NEW same
  PROVE  /\ TotalTax(SplitTax(b, same)) = Levy(b, same)
         /\ \A printed : printed.split = SplitTax(b, same) => Columns(printed) = Levy(b, same)
         /\ IsFiniteSet(SplitTax(b, same)) /\ Cardinality(SplitTax(b, same)) = Cardinality(Kinds(b))
         /\ Levy(b, same) \in Nat
<1> DEFINE G == SplitTax(b, same)
           tax == [g \in G |-> g.tax]
           columns == [g \in G |-> g.cgst + g.sgst + g.igst]
           f == Levied(b, same)
<1>1. \A k \in Kinds(b) : f[k] \in Nat
  BY TaxOfKind
<1>2. \A k \in Kinds(b) : Row(b, k, same) \in G
  BY SplitByKind
<1>3. ASSUME NEW k \in Kinds(b) PROVE tax[Row(b, k, same)] = f[k]
  BY <1>2 DEF Row, Levied
<1>4. ASSUME NEW k \in Kinds(b) PROVE columns[Row(b, k, same)] = f[k]
  <2>1. Half(Tax(b, k)) \in Nat /\ Tax(b, k) \in Nat
    BY TaxOfKind, HalvesAreClose
  <2>2. columns[Row(b, k, same)]
          = Row(b, k, same).cgst + Row(b, k, same).sgst + Row(b, k, same).igst
    BY <1>2
  <2>3. f[k] = Collected(Tax(b, k), same)
    BY DEF Levied
  <2> HIDE DEF f, columns
  <2>4. CASE same
    BY <2>1, <2>2, <2>3, <2>4 DEF Row, Collected
  <2>5. CASE ~same
    BY <2>1, <2>2, <2>3, <2>5 DEF Row, Collected
  <2> QED
    BY <2>4, <2>5
<1> HIDE DEF tax, columns
<1>5. /\ Sum(tax, G) = Sum(f, Kinds(b)) /\ Sum(columns, G) = Sum(f, Kinds(b))
      /\ IsFiniteSet(G) /\ Cardinality(G) = Cardinality(Kinds(b))
  BY <1>1, <1>3, <1>4, SumByKind
<1>6. Sum(f, Kinds(b)) \in Nat
  BY <1>1, KindsAreFinite, SumIsNatural
<1> QED
  BY <1>5, <1>6 DEF TotalTax, Columns, tax, columns, Levy

\* A total does not depend on the function it is taken through.
LEMMA TotalIsSum ==
  ASSUME NEW b, Lines(b), NEW I \in SUBSET DOMAIN b, NEW f, \A n \in I : f[n] = b[n].value
  PROVE  Total(b, I) = Sum(f, I)
<1> DEFINE g == [n \in I |-> b[n].value]
<1>1. IsFiniteSet(I)
  BY TotalIsNatural
<1>2. \A n \in I : g[n] = f[n]
  OBVIOUS
<1> HIDE DEF g
<1>3. Sum(g, I) = Sum(f, I)
  BY <1>1, <1>2, SumOfEqual
<1> QED
  BY <1>3 DEF Total, g

\* Each group is rounded twice, by less than two paise in all.
LEMMA LevyIsDue ==
  ASSUME NEW b, Lines(b), Len(b) # 0, NEW same
  PROVE  Within(200 * Cardinality(SplitTax(b, TRUE)), 100 * Levy(b, same),
                Sum([n \in DOMAIN b |-> b[n].value * Rate(b[n])], DOMAIN b))
<1> DEFINE K == Kinds(b)
           S == DOMAIN b
           value == [n \in S |-> b[n].value]
           owed == [n \in S |-> b[n].value * Rate(b[n])]
           part == [k \in K |-> Alike(b, k)]
           due == [k \in K |-> Total(b, Alike(b, k)) * k[2]]
           levied == Levied(b, same)
           cents == [k \in K |-> 100 * levied[k]]
           least == [k \in K |-> -50]
           most == [k \in K |-> 150]
           low == [k \in K |-> due[k] + least[k]]
           high == [k \in K |-> due[k] + most[k]]
<1>1. IsFiniteSet(K) /\ IsFiniteSet(S)
  BY KindsAreFinite, TotalIsNatural
<1>2. \A n \in S : owed[n] \in Int /\ value[n] \in Int
  BY DEF Lines
<1>3. /\ \A k \in K : part[k] \subseteq S
      /\ \A k, l \in K : k # l => part[k] \cap part[l] = {}
      /\ \A n \in S : \E k \in K : n \in part[k]
  <2>1. \A k \in K : part[k] = {n \in S : b[n].hsn = k[1] /\ Rate(b[n]) = k[2]}
    BY DEF Alike
  <2>2. \A k \in K : k = <<k[1], k[2]>>
    BY KindsAreFinite
  <2>3. \A n \in S : <<b[n].hsn, Rate(b[n])>> \in K
    BY DEF Kinds
  <2> HIDE DEF part, K
  <2>4. \A n \in S : n \in part[<<b[n].hsn, Rate(b[n])>>]
    BY <2>1, <2>3
  <2>5. \A k, l \in K : k # l => part[k] \cap part[l] = {}
    <3> SUFFICES ASSUME NEW k \in K, NEW l \in K, NEW n \in part[k] \cap part[l] PROVE k = l
      OBVIOUS
    <3>1. k[1] = l[1] /\ k[2] = l[2]
      BY <2>1
    <3> QED
      BY <2>2, <3>1
  <2>6. \A n \in S : \E k \in K : n \in part[k]
    BY <2>3, <2>4
  <2> QED
    BY <2>1, <2>5, <2>6
<1>4. \A k \in K : due[k] = Sum(owed, part[k])
  <2> SUFFICES ASSUME NEW k \in K PROVE due[k] = Sum(owed, part[k])
    OBVIOUS
  <2>1. part[k] \in SUBSET S /\ part[k] = Alike(b, k)
    BY <1>3
  <2>2. k[2] \in Int /\ \A n \in part[k] : value[n] \in Int /\ owed[n] = k[2] * value[n]
    <3>1. \A n \in part[k] : Rate(b[n]) = k[2] /\ b[n].value \in Nat /\ k[2] \in Nat
      BY <2>1, TaxOfKind DEF Alike, Lines
    <3>2. k[2] \in Nat
      BY TaxOfKind
    <3> QED
      BY <2>1, <3>1, <3>2
  <2>3. IsFiniteSet(part[k]) /\ Total(b, part[k]) = Sum(value, part[k]) /\ Total(b, part[k]) \in Nat
    BY <2>1, TotalIsNatural, TotalIsSum
  <2>4. due[k] = Total(b, part[k]) * k[2]
    BY <2>1
  <2> HIDE DEF part, value, owed, due
  <2>5. Sum(owed, part[k]) = k[2] * Sum(value, part[k])
    BY <2>2, <2>3, SumScales
  <2> QED
    BY <2>2, <2>3, <2>4, <2>5
<1>5. \A k \in K : /\ due[k] \in Int /\ levied[k] \in Int /\ cents[k] \in Int
                   /\ low[k] \in Int /\ high[k] \in Int
                   /\ low[k] <= cents[k] /\ cents[k] <= high[k]
                   /\ low[k] = due[k] + least[k] /\ high[k] = due[k] + most[k]
                   /\ cents[k] = 100 * levied[k] /\ least[k] = -50 /\ most[k] = 150
  <2> SUFFICES ASSUME NEW k \in K
               PROVE  /\ due[k] \in Int /\ levied[k] \in Int
                      /\ due[k] - 50 <= 100 * levied[k] /\ 100 * levied[k] <= due[k] + 150
    OBVIOUS
  <2> DEFINE t == Total(b, Alike(b, k))
             x == Tax(b, k)
  <2>1. t \in Nat /\ k[2] \in Nat /\ x \in Nat /\ 100 * x <= t * k[2] + 50
        /\ t * k[2] < 100 * x + 50 /\ levied[k] \in {x, x + 1}
    BY TaxOfKind
  <2>2. due[k] = t * k[2]
    OBVIOUS
  <2> DEFINE y == t * k[2]
  <2> HIDE DEF t, x, due, levied
  <2>3. y \in Int
    BY <2>1
  <2>4. 100 * x <= y + 50 /\ y < 100 * x + 50 /\ due[k] = y
    BY <2>1, <2>2
  <2> HIDE DEF y
  <2>5. x \in Nat /\ levied[k] \in {x, x + 1}
    BY <2>1
  <2> QED
    BY <2>3, <2>4, <2>5
<1> HIDE DEF K, S, value, owed, part, due, cents, least, most, low, high, levied
<1>6. Sum(due, K) = Sum(owed, S)
  BY <1>1, <1>2, <1>3, <1>4, SumOfParts
<1>7. Sum(cents, K) = 100 * Sum(levied, K)
  BY <1>1, <1>5, SumScales
<1>8. /\ Sum(low, K) = Sum(due, K) + Sum(least, K) /\ Sum(high, K) = Sum(due, K) + Sum(most, K)
  <2>1. \A k \in K : due[k] \in Int /\ least[k] \in Int /\ low[k] = due[k] + least[k]
    BY <1>5
  <2>2. \A k \in K : due[k] \in Int /\ most[k] \in Int /\ high[k] = due[k] + most[k]
    BY <1>5
  <2>3. Sum(low, K) = Sum(due, K) + Sum(least, K)
    BY <1>1, <2>1, SumAdds
  <2>4. Sum(high, K) = Sum(due, K) + Sum(most, K)
    BY <1>1, <2>2, SumAdds
  <2> QED
    BY <2>3, <2>4
<1>9. Sum(least, K) = (-50) * Cardinality(K) /\ Sum(most, K) = 150 * Cardinality(K)
  BY <1>1, <1>5, SumOfConstant
<1>10. Sum(low, K) <= Sum(cents, K) /\ Sum(cents, K) <= Sum(high, K)
  BY <1>1, <1>5, SumIsMonotone
<1>11. Sum(levied, K) \in Int /\ Sum(due, K) \in Int
  BY <1>1, <1>5, SumIsWhole
<1>12. Cardinality(K) \in Nat /\ Cardinality(K) # 0
  <2>1. K # {}
    <3>1. 1 \in S
      BY DEF Lines, S
    <3> QED
      BY <1>3, <3>1
  <2> QED
    BY <1>1, <2>1, FS_CardinalityType, FS_EmptySet
<1>13. Cardinality(SplitTax(b, TRUE)) = Cardinality(K)
  BY LevyIsPrinted DEF K
<1>14. Within(200 * Cardinality(K), 100 * Sum(levied, K), Sum(owed, S))
  BY <1>6, <1>7, <1>8, <1>9, <1>10, <1>11, <1>12 DEF Within
<1> QED
  BY <1>13, <1>14 DEF Levy, K, levied, owed, S

\* The lines that fit: no more than there are, and neither is their tax.
LEMMA PrefixIsLess ==
  ASSUME NEW b, Lines(b), NEW c, Lines(c), Len(c) <= Len(b),
         \A n \in DOMAIN c : c[n] = b[n], NEW same
  PROVE  Subtotal(c) <= Subtotal(b) /\ Levy(c, same) <= Levy(b, same)
<1> DEFINE value == [n \in DOMAIN b |-> b[n].value]
<1>1. DOMAIN c \in SUBSET DOMAIN b
  BY DEF Lines
<1>2. IsFiniteSet(DOMAIN b) /\ \A n \in DOMAIN b : value[n] \in Nat /\ value[n] = b[n].value
  BY TotalIsNatural DEF Lines
<1> HIDE DEF value
<1>3. ASSUME NEW I \in SUBSET DOMAIN c, NEW J \in SUBSET DOMAIN b, I \subseteq J
      PROVE  Total(c, I) <= Total(b, J)
  <2>1. I \in SUBSET DOMAIN b /\ \A n \in I : value[n] = c[n].value
    BY <1>1, <1>2
  <2>2. Total(c, I) = Sum(value, I) /\ Total(b, J) = Sum(value, J)
    BY <1>2, <2>1, TotalIsSum
  <2>3. IsFiniteSet(J) /\ I \in SUBSET J /\ \A n \in J : value[n] \in Nat
    BY <1>2, <1>3, FS_Subset
  <2>4. Sum(value, I) <= Sum(value, J)
    BY <2>3, SumOfSubset
  <2> QED
    BY <2>2, <2>4
<1>4. Subtotal(c) <= Subtotal(b)
  BY <1>1, <1>3 DEF Subtotal
<1>5. Kinds(c) \in SUBSET Kinds(b)
  BY <1>1 DEF Kinds
<1>6. ASSUME NEW k \in Kinds(c) PROVE Levied(c, same)[k] <= Levied(b, same)[k]
  <2> DEFINE u == Total(c, Alike(c, k))
             v == Total(b, Alike(b, k))
  <2>1. Alike(c, k) \in SUBSET DOMAIN c /\ Alike(b, k) \in SUBSET DOMAIN b
        /\ Alike(c, k) \subseteq Alike(b, k)
    BY <1>1 DEF Alike
  <2>2. u \in Nat /\ v \in Nat /\ u <= v /\ k[2] \in Nat
    BY <1>3, <1>5, <2>1, TaxOfKind
  <2>3. Tax(c, k) = (u * k[2] + 50) \div 100 /\ Tax(b, k) = (v * k[2] + 50) \div 100
        /\ Tax(c, k) \in Nat /\ Tax(b, k) \in Nat
    BY <1>5, TaxOfKind DEF Tax
  <2> HIDE DEF u, v
  <2>4. u * k[2] <= v * k[2] /\ u * k[2] \in Nat /\ v * k[2] \in Nat
    BY <2>2
  <2> DEFINE x == u * k[2]
             y == v * k[2]
  <2>5. Tax(c, k) <= Tax(b, k)
    <3>1. x \in Nat /\ y \in Nat /\ x <= y /\ Tax(c, k) = (x + 50) \div 100
            /\ Tax(b, k) = (y + 50) \div 100
      BY <2>3, <2>4
    <3> HIDE DEF x, y
    <3>2. (x + 50) \div 100 <= (y + 50) \div 100
      BY <3>1
    <3> QED
      BY <3>1, <3>2
  <2>6. Half(Tax(c, k)) <= Half(Tax(b, k)) /\ Half(Tax(c, k)) \in Nat /\ Half(Tax(b, k)) \in Nat
    BY <2>3, <2>5 DEF Half
  <2>7. Levied(c, same)[k] = Collected(Tax(c, k), same)
          /\ Levied(b, same)[k] = Collected(Tax(b, k), same)
    BY <1>5 DEF Levied
  <2> QED
    BY <2>3, <2>5, <2>6, <2>7 DEF Collected
<1>7. Sum(Levied(c, same), Kinds(c)) <= Sum(Levied(b, same), Kinds(c))
  <2>1. IsFiniteSet(Kinds(c))
    BY KindsAreFinite
  <2>2. \A k \in Kinds(c) : Levied(c, same)[k] \in Int /\ Levied(b, same)[k] \in Int
    BY <1>5, TaxOfKind
  <2> QED
    BY <1>6, <2>1, <2>2, SumIsMonotone
<1>8. Sum(Levied(b, same), Kinds(c)) <= Sum(Levied(b, same), Kinds(b))
  <2>1. IsFiniteSet(Kinds(b)) /\ \A k \in Kinds(b) : Levied(b, same)[k] \in Nat
    BY KindsAreFinite, TaxOfKind
  <2> QED
    BY <1>5, <2>1, SumOfSubset
<1>9. /\ Sum(Levied(c, same), Kinds(c)) \in Int /\ Sum(Levied(b, same), Kinds(b)) \in Int
      /\ Sum(Levied(b, same), Kinds(c)) \in Int
  <2>1. \A k \in Kinds(c) : Levied(c, same)[k] \in Int /\ Levied(b, same)[k] \in Int
    BY <1>5, TaxOfKind
  <2>2. \A k \in Kinds(b) : Levied(b, same)[k] \in Int
    BY TaxOfKind
  <2> QED
    BY <2>1, <2>2, KindsAreFinite, SumIsWhole
<1> QED
  BY <1>4, <1>7, <1>8, <1>9 DEF Levy

\* In halves or whole, a group's tax is the same but for a paisa.
LEMMA LeviesAreClose ==
  ASSUME NEW b, Lines(b), NEW one, NEW other
  PROVE  Within(Cardinality(Kinds(b)) + 1, Levy(b, one), Levy(b, other))
<1> DEFINE K == Kinds(b)
           tax == [k \in K |-> Tax(b, k)]
           paisa == [k \in K |-> 1]
           more == [k \in K |-> tax[k] + paisa[k]]
<1>1. IsFiniteSet(K) /\ Cardinality(K) \in Nat
  BY KindsAreFinite, FS_CardinalityType
<1>2. \A k \in K : tax[k] \in Int /\ paisa[k] \in Int /\ more[k] = tax[k] + paisa[k]
  BY TaxOfKind
<1>3. ASSUME NEW same, NEW k \in K
      PROVE  /\ Levied(b, same)[k] \in Int /\ tax[k] \in Int /\ more[k] \in Int
             /\ tax[k] <= Levied(b, same)[k] /\ Levied(b, same)[k] <= more[k]
  <2>1. tax[k] \in Nat /\ Levied(b, same)[k] \in {tax[k], tax[k] + 1} /\ more[k] = tax[k] + 1
    BY TaxOfKind
  <2> HIDE DEF tax, more
  <2> QED
    BY <2>1
<1>4. \A k \in K : paisa[k] = 1
  OBVIOUS
<1> HIDE DEF K, tax, paisa, more
<1>5. Sum(more, K) = Sum(tax, K) + Sum(paisa, K)
  BY <1>1, <1>2, SumAdds
<1>6. Sum(paisa, K) = 1 * Cardinality(K)
  BY <1>1, <1>4, SumOfConstant
<1>7. Sum(tax, K) \in Int
  BY <1>1, <1>2, SumIsWhole
<1>8. ASSUME NEW same
      PROVE  /\ Sum(tax, K) <= Sum(Levied(b, same), K) /\ Sum(Levied(b, same), K) <= Sum(more, K)
             /\ Sum(Levied(b, same), K) \in Int
  <2> DEFINE levied == Levied(b, same)
  <2>1. \A k \in K : levied[k] \in Int /\ tax[k] \in Int /\ more[k] \in Int
                     /\ tax[k] <= levied[k] /\ levied[k] <= more[k]
    BY <1>3
  <2> HIDE DEF levied
  <2>2. Sum(tax, K) <= Sum(levied, K) /\ Sum(levied, K) <= Sum(more, K) /\ Sum(levied, K) \in Int
    BY <1>1, <2>1, SumIsMonotone, SumIsWhole
  <2> QED
    BY <2>2 DEF levied
<1>9. Levy(b, one) = Sum(Levied(b, one), K) /\ Levy(b, other) = Sum(Levied(b, other), K)
  BY DEF Levy, K
<1>10. Within(Cardinality(K) + 1, Sum(Levied(b, one), K), Sum(Levied(b, other), K))
  BY <1>1, <1>5, <1>6, <1>7, <1>8 DEF Within
<1> QED
  BY <1>9, <1>10 DEF K

\* The lines of a bill that are l, and the different lines of it.
Copies(b, l) == {n \in DOMAIN b : b[n] = l}
Different(b) == {b[n] : n \in DOMAIN b}

\* Counted by what they say, lines are counted once.
LEMMA CopiesAreParts ==
  ASSUME NEW b, Lines(b), NEW W, NEW count, \A l \in W : count[l] = Cardinality(Copies(b, l)),
         IsFiniteSet(W)
  PROVE  Sum(count, W) = Cardinality({n \in DOMAIN b : b[n] \in W})
<1> DEFINE D == {n \in DOMAIN b : b[n] \in W}
           part == [l \in W |-> Copies(b, l)]
<1>1. D \in SUBSET DOMAIN b
  OBVIOUS
<1>2. IsFiniteSet(D)
  BY <1>1, TotalIsNatural
<1>3. /\ \A l \in W : part[l] \subseteq D /\ count[l] = Cardinality(part[l])
      /\ \A l, m \in W : l # m => part[l] \cap part[m] = {}
      /\ \A n \in D : \E l \in W : n \in part[l]
  BY DEF Copies
<1> HIDE DEF D, part
<1>4. Sum(count, W) = Cardinality(D)
  BY <1>2, <1>3, CountOfParts
<1> QED
  BY <1>4 DEF D

\* The lines of two bills that have as many copies of each are the same lines.
LEMMA ReorderedIsSame ==
  ASSUME NEW b, Lines(b), NEW c, Lines(c), Reordered(b, c)
  PROVE  /\ Different(c) = Different(b) /\ IsFiniteSet(Different(b))
         /\ \A l \in Different(b) : Cardinality(Copies(b, l)) = Cardinality(Copies(c, l))
<1> DEFINE W == Different(b)
           count == [l \in W |-> Cardinality(Copies(b, l))]
           D == {n \in DOMAIN c : c[n] \in W}
<1>1. IsFiniteSet(W)
  <2> DEFINE line == [n \in DOMAIN b |-> b[n]]
  <2>1. /\ \A n \in DOMAIN b : line[n] \in W
        /\ \A l \in W : \E n \in DOMAIN b : line[n] = l
    BY DEF Different
  <2>2. IsFiniteSet(DOMAIN b)
    BY TotalIsNatural
  <2> HIDE DEF line, W
  <2> QED
    BY <2>1, <2>2, ImageIsFinite
<1>2. \A l \in W : Cardinality(Copies(b, l)) = Cardinality(Copies(c, l))
  <2> SUFFICES ASSUME NEW n \in DOMAIN b
               PROVE  Cardinality(Copies(b, b[n])) = Cardinality(Copies(c, b[n]))
    BY DEF Different
  <2> QED
    BY DEF Reordered, Copies
<1>3. /\ \A l \in W : count[l] = Cardinality(Copies(b, l))
      /\ \A l \in W : count[l] = Cardinality(Copies(c, l))
  BY <1>2
<1>4. {n \in DOMAIN b : b[n] \in W} = DOMAIN b
  BY DEF Different
<1> HIDE DEF count
<1>5. Sum(count, W) = Cardinality(DOMAIN b) /\ Sum(count, W) = Cardinality(D)
  <2> HIDE DEF W
  <2>1. Sum(count, W) = Cardinality({n \in DOMAIN b : b[n] \in W})
    BY <1>1, <1>3, CopiesAreParts
  <2>2. Sum(count, W) = Cardinality({n \in DOMAIN c : c[n] \in W})
    BY <1>1, <1>3, CopiesAreParts
  <2> QED
    BY <1>4, <2>1, <2>2 DEF W
<1>6. Cardinality(DOMAIN b) = Len(b) /\ Cardinality(DOMAIN c) = Len(c) /\ IsFiniteSet(DOMAIN c)
  <2>1. Len(b) \in Nat /\ Len(c) \in Nat /\ DOMAIN b = 1..Len(b) /\ DOMAIN c = 1..Len(c)
    BY DEF Lines
  <2>2. \A m \in Nat : Cardinality(1..m) = m /\ IsFiniteSet(1..m)
    BY FS_Interval
  <2> QED
    BY <2>1, <2>2, Zenon
<1>7. Len(b) = Len(c)
  BY DEF Reordered
<1>8. D = DOMAIN c
  <2>1. D \in SUBSET DOMAIN c /\ Cardinality(D) = Cardinality(DOMAIN c)
    BY <1>5, <1>6, <1>7
  <2> HIDE DEF D
  <2> QED
    BY <1>6, <2>1, FS_Subset
<1>9. Different(c) \subseteq W
  BY <1>8 DEF Different
<1>10. W \subseteq Different(c)
  <2> SUFFICES ASSUME NEW l \in W PROVE l \in Different(c)
    OBVIOUS
  <2>1. Copies(b, l) # {}
    BY DEF Different, Copies
  <2>2. IsFiniteSet(Copies(b, l)) /\ IsFiniteSet(Copies(c, l))
    BY TotalIsNatural DEF Copies
  <2>3. Cardinality(Copies(c, l)) # 0
    BY <1>2, <2>1, <2>2, FS_EmptySet
  <2>4. Copies(c, l) # {}
    BY <2>3, FS_EmptySet
  <2> QED
    BY <2>4 DEF Copies, Different
<1> HIDE DEF W
<1>11. Different(c) = W
  BY <1>9, <1>10
<1> QED
  BY <1>1, <1>2, <1>11 DEF W

\* A kind's total, line by line.
LEMMA TotalByLine ==
  ASSUME NEW b, Lines(b), IsFiniteSet(Different(b)), NEW k,
         NEW W, W = {l \in Different(b) : l.hsn = k[1] /\ Rate(l) = k[2]},
         NEW share, \A l \in W : share[l] = l.value * Cardinality(Copies(b, l))
  PROVE  Total(b, Alike(b, k)) = Sum(share, W)
<1> DEFINE S == Alike(b, k)
           value == [n \in S |-> b[n].value]
           part == [l \in W |-> Copies(b, l)]
<1>1. IsFiniteSet(S) /\ S \in SUBSET DOMAIN b /\ Total(b, S) = Sum(value, S)
  BY TotalIsNatural DEF Alike, Total
<1>2. IsFiniteSet(W)
  BY FS_Subset
<1>3. \A n \in S : value[n] \in Int
  BY <1>1 DEF Lines
<1>4. /\ \A l \in W : part[l] \subseteq S
      /\ \A l, m \in W : l # m => part[l] \cap part[m] = {}
      /\ \A n \in S : \E l \in W : n \in part[l]
  <2>1. \A l \in W : part[l] = {n \in DOMAIN b : b[n] = l} /\ l.hsn = k[1] /\ Rate(l) = k[2]
    BY DEF Copies
  <2>2. \A n \in S : b[n] \in W
    BY DEF Alike, Different
  <2>3. \A n : n \in S <=> n \in DOMAIN b /\ b[n].hsn = k[1] /\ Rate(b[n]) = k[2]
    BY DEF Alike
  <2> HIDE DEF S, part
  <2>4. \A l \in W : part[l] \subseteq S
    BY <2>1, <2>3
  <2>5. \A l, m \in W : l # m => part[l] \cap part[m] = {}
    BY <2>1
  <2>6. \A n \in S : n \in part[b[n]]
    BY <2>1, <2>2, <2>3
  <2> QED
    BY <2>2, <2>4, <2>5, <2>6
<1>5. \A l \in W : share[l] = Sum(value, part[l])
  <2> SUFFICES ASSUME NEW l \in W PROVE share[l] = Sum(value, part[l])
    OBVIOUS
  <2>1. IsFiniteSet(part[l]) /\ l.value \in Int
    <3>1. part[l] \in SUBSET S
      BY <1>4
    <3>2. IsFiniteSet(part[l])
      <4> HIDE DEF part, S
      <4> QED
        BY <1>1, <3>1, FS_Subset
    <3>3. l \in Different(b)
      OBVIOUS
    <3> QED
      BY <3>2, <3>3 DEF Different, Lines
  <2>2. \A n \in part[l] : value[n] = l.value
    BY <1>4 DEF Copies
  <2>3. part[l] = Copies(b, l)
    OBVIOUS
  <2> HIDE DEF value, part
  <2>4. Sum(value, part[l]) = l.value * Cardinality(part[l])
    BY <2>1, <2>2, SumOfConstant
  <2> QED
    BY <2>3, <2>4
<1> HIDE DEF S, value, part
<1>6. \A l \in W : part[l] \subseteq S /\ share[l] = Sum(value, part[l])
  BY <1>4, <1>5
<1>7. \A l, m \in W : l # m => part[l] \cap part[m] = {}
  BY <1>4
<1>8. \A n \in S : \E l \in W : n \in part[l]
  BY <1>4
<1>9. Sum(share, W) = Sum(value, S)
  BY <1>1, <1>2, <1>3, <1>6, <1>7, <1>8, SumOfParts
<1> QED
  BY <1>1, <1>9 DEF S

\* So a bill whose lines come back in another order is split in the same way.
LEMMA ReorderedSplits ==
  ASSUME NEW b, Lines(b), NEW c, Lines(c), Reordered(b, c), NEW same
  PROVE  SplitTax(c, same) = SplitTax(b, same) /\ Levy(c, same) = Levy(b, same)
         /\ Kinds(c) = Kinds(b)
<1>1. /\ Different(c) = Different(b) /\ IsFiniteSet(Different(b))
      /\ \A l \in Different(b) : Cardinality(Copies(b, l)) = Cardinality(Copies(c, l))
  BY ReorderedIsSame
<1>2. Kinds(c) = Kinds(b)
  <2>1. Kinds(b) = {<<l.hsn, Rate(l)>> : l \in Different(b)}
    BY DEF Kinds, Different
  <2>2. Kinds(c) = {<<l.hsn, Rate(l)>> : l \in Different(c)}
    BY DEF Kinds, Different
  <2> QED
    BY <1>1, <2>1, <2>2
<1>3. ASSUME NEW k PROVE Total(b, Alike(b, k)) = Total(c, Alike(c, k))
  <2> DEFINE W == {l \in Different(b) : l.hsn = k[1] /\ Rate(l) = k[2]}
             share == [l \in W |-> l.value * Cardinality(Copies(b, l))]
  <2>1. /\ \A l \in W : share[l] = l.value * Cardinality(Copies(b, l))
        /\ \A l \in W : share[l] = l.value * Cardinality(Copies(c, l))
    BY <1>1
  <2>2. W = {l \in Different(c) : l.hsn = k[1] /\ Rate(l) = k[2]}
    BY <1>1
  <2>3. W = {l \in Different(b) : l.hsn = k[1] /\ Rate(l) = k[2]}
    OBVIOUS
  <2> HIDE DEF W, share
  <2>4. Total(b, Alike(b, k)) = Sum(share, W)
    BY <1>1, <2>1, <2>3, TotalByLine
  <2>5. Total(c, Alike(c, k)) = Sum(share, W)
    BY <1>1, <2>1, <2>2, TotalByLine
  <2> QED
    BY <2>4, <2>5
<1>4. ASSUME NEW k PROVE Tax(b, k) = Tax(c, k) /\ Row(b, k, same) = Row(c, k, same)
  BY <1>3 DEF Tax, Row
<1>5. SplitTax(c, same) = SplitTax(b, same)
  BY <1>2, <1>4, SplitByKind
<1>6. Levied(c, same) = Levied(b, same)
  BY <1>2, <1>4 DEF Levied
<1> QED
  BY <1>2, <1>5, <1>6 DEF Levy

\* What a PDF shows of a bill: the first lines of it, and all of them if they fit.
Shown(b) == SubSeq(b, 1, IF Len(b) < MaxLines THEN Len(b) ELSE MaxLines)

\* A bill has lines, and a PDF shows a first part of it, or all.
LEMMA BillsAreLines ==
  ASSUME NEW b \in Bill
  PROVE  /\ Lines(b) /\ Len(b) # 0
         /\ Lines(Shown(b)) /\ Len(Shown(b)) <= Len(b)
         /\ \A n \in DOMAIN Shown(b) : Shown(b)[n] = b[n]
         /\ Len(b) <= MaxLines => Shown(b) = b
<1> DEFINE L == {b[n] : n \in DOMAIN b}
           m == IF Len(b) < MaxLines THEN Len(b) ELSE MaxLines
<1>1. /\ b \in Seq(L) /\ b # <<>> /\ MaxLines \in Nat
      /\ \A n \in DOMAIN b : b[n].value \in Nat /\ b[n].rate \in Nat \cup {None}
  BY BillsAreLists
<1>2. \A n \in DOMAIN b : Rate(b[n]) \in Nat
  BY <1>1 DEF Rate
<1> HIDE DEF L
<1>3. Len(b) \in Nat /\ DOMAIN b = 1..Len(b) /\ Len(b) # 0
  BY <1>1
<1>4. Lines(b)
  BY <1>1, <1>2, <1>3 DEF Lines
<1>5. m \in 0..Len(b) /\ (Len(b) <= MaxLines => m = Len(b))
  <2> DEFINE len == Len(b)
  <2>1. len \in Nat /\ MaxLines \in Nat /\ m = IF len < MaxLines THEN len ELSE MaxLines
    BY <1>1, <1>3
  <2> HIDE DEF len, m
  <2>2. m \in Nat /\ m <= len /\ (len <= MaxLines => m = len)
    BY <2>1
  <2> QED
    BY <2>1, <2>2 DEF len
<1> HIDE DEF m
<1>6. /\ SubSeq(b, 1, m) \in Seq(L) /\ Len(SubSeq(b, 1, m)) = m
      /\ \A n \in 1..m : SubSeq(b, 1, m)[n] = b[n]
  <2> DEFINE len == Len(b)
  <2>1. len \in Nat /\ DOMAIN b = 1..len /\ m \in 0..len
    BY <1>3, <1>5
  <2> HIDE DEF len
  <2>2. /\ m \in Nat /\ m = m - 1 + 1 /\ 1..m \subseteq 1..len
        /\ \A n \in 1..m : n \in 1..(m - 1 + 1) /\ 1 + n - 1 = n
    BY <2>1
  <2> QED
    BY <1>1, <2>1, <2>2
<1>7. Shown(b) = SubSeq(b, 1, m)
  BY DEF Shown, m
<1>8. Shown(b) \in Seq(L) /\ Len(Shown(b)) = m /\ DOMAIN Shown(b) = 1..m
  BY <1>5, <1>6, <1>7
<1>9. \A n \in DOMAIN Shown(b) : Shown(b)[n] = b[n] /\ n \in DOMAIN b
  <2> DEFINE len == Len(b)
  <2>1. len \in Nat /\ DOMAIN b = 1..len /\ m \in 0..len
    BY <1>3, <1>5
  <2> HIDE DEF len
  <2>2. m \in Nat /\ 1..m \subseteq 1..len
    BY <2>1
  <2> QED
    BY <1>6, <1>7, <1>8, <2>1, <2>2
<1>10. Lines(Shown(b))
  BY <1>1, <1>2, <1>5, <1>8, <1>9 DEF Lines
<1>11. ASSUME Len(b) <= MaxLines PROVE Shown(b) = b
  <2>1. m = Len(b)
    BY <1>5, <1>11
  <2> QED
    BY <1>1, <1>3, <1>8, <1>9, <2>1
<1>12. Len(Shown(b)) <= Len(b)
  <2> DEFINE len == Len(b)
  <2>1. len \in Nat /\ m \in 0..len /\ Len(Shown(b)) = m
    BY <1>3, <1>5, <1>8
  <2> HIDE DEF len
  <2>2. m <= len
    BY <2>1
  <2> QED
    BY <2>1, <2>2 DEF len
<1> QED
  BY <1>3, <1>4, <1>9, <1>10, <1>11, <1>12, Zenon

\* Gst.tla's AddsUp, of every bill and any two states of the two sides.
LEMMA EveryBillAddsUp ==
  ASSUME NEW b \in Bill, NEW before, NEW after
  PROVE  AddsUp(b, before, after)
<1> DEFINE one == SameState(before.seller, before.buyer)
           other == SameState(after.seller, after.buyer)
           first == Sent(b, one)
           due == Sum([n \in DOMAIN b |-> b[n].value * Rate(b[n])], DOMAIN b)
<1>1. /\ Lines(b) /\ Len(b) # 0 /\ Lines(Shown(b)) /\ Len(Shown(b)) <= Len(b)
      /\ \A n \in DOMAIN Shown(b) : Shown(b)[n] = b[n]
      /\ Len(b) <= MaxLines => Shown(b) = b
  BY BillsAreLines
<1>2. first = [lines |-> Shown(b), split |-> SplitTax(Shown(b), one), subtotal |-> Subtotal(b),
               tax |-> TotalTax(SplitTax(b, one)),
               total |-> Subtotal(b) + TotalTax(SplitTax(b, one)), same |-> one]
  BY DEF Sent, InvoiceDocument, Shown
<1>3. TotalTax(SplitTax(b, one)) = Levy(b, one)
  BY <1>1, LevyIsPrinted
<1> HIDE DEF one, other, first
<1>4. /\ first.lines = Shown(b) /\ first.split = SplitTax(Shown(b), one)
      /\ first.subtotal = Subtotal(b) /\ first.tax = Levy(b, one)
  BY <1>2, <1>3
<1>5. Columns(first) = Levy(Shown(b), one)
  BY <1>1, <1>4, LevyIsPrinted
<1>6. Within(200 * Cardinality(SplitTax(b, TRUE)), 100 * first.tax, due)
  BY <1>1, <1>4, LevyIsDue
<1>7. IF Len(b) <= MaxLines
        THEN Subtotal(first.lines) = first.subtotal /\ Columns(first) = first.tax
        ELSE Subtotal(first.lines) <= first.subtotal /\ Columns(first) <= first.tax
  <2>1. Subtotal(Shown(b)) <= Subtotal(b) /\ Levy(Shown(b), one) <= Levy(b, one)
    BY <1>1, PrefixIsLess
  <2> QED
    BY <1>1, <1>4, <1>5, <2>1
<1>8. ASSUME NEW stored \in Bill, Len(stored) <= MaxLines, Reordered(b, stored)
      PROVE  LET again == Resent(stored, first, other)
             IN  /\ Within(Cardinality(again.split) + 1, Columns(again), again.tax)
                 /\ again.same = first.same => [again EXCEPT !.lines = first.lines] = first
  <2> DEFINE again == Resent(stored, first, other)
  <2>1. Lines(stored) /\ Shown(stored) = stored /\ Len(b) <= MaxLines /\ Shown(b) = b
    <3>1. Len(b) = Len(stored)
      BY <1>8 DEF Reordered
    <3> QED
      BY <1>1, <1>8, <3>1, BillsAreLines
  <2>2. again = [lines |-> stored, split |-> SplitTax(stored, other), subtotal |-> first.subtotal,
                 tax |-> first.tax, total |-> first.subtotal + first.tax, same |-> other]
    BY <2>1 DEF Resent, InvoiceDocument, Shown
  <2>3. SplitTax(stored, other) = SplitTax(b, other) /\ Levy(stored, other) = Levy(b, other)
    BY <1>1, <1>8, <2>1, ReorderedSplits
  <2> HIDE DEF again
  <2>4. /\ again.split = SplitTax(b, other) /\ again.tax = Levy(b, one) /\ again.same = other
    BY <1>4, <2>2, <2>3
  <2>5. Columns(again) = Levy(b, other) /\ Cardinality(again.split) = Cardinality(Kinds(b))
    BY <1>1, <2>4, LevyIsPrinted
  <2>6. Within(Cardinality(Kinds(b)) + 1, Levy(b, other), Levy(b, one))
    BY <1>1, LeviesAreClose
  <2>7. ASSUME again.same = first.same PROVE [again EXCEPT !.lines = first.lines] = first
    <3>1. first.same = one /\ other = one
      BY <1>2, <2>4, <2>7
    <3>2. first = [lines |-> b, split |-> SplitTax(b, one), subtotal |-> Subtotal(b),
                   tax |-> Levy(b, one), total |-> Subtotal(b) + Levy(b, one), same |-> one]
      BY <1>2, <1>3, <2>1
    <3>3. again = [lines |-> stored, split |-> SplitTax(b, one), subtotal |-> Subtotal(b),
                   tax |-> Levy(b, one), total |-> Subtotal(b) + Levy(b, one), same |-> one]
      BY <1>4, <2>2, <2>3, <3>1
    <3>4. first.lines = b
      BY <3>2
    <3> QED
      BY <3>2, <3>3, <3>4
  <2> QED
    BY <2>4, <2>5, <2>6, <2>7 DEF again
<1> QED
  BY <1>6, <1>7, <1>8 DEF AddsUp, first, one, other

\* Whatever is billed between whichever two states, what a sender mails adds up, and
\* again when it is sent again: the tax columns to the tax line, that to what is due
\* within two paise a group, and the second PDF to the first.
THEOREM PrintsAddUp == Spec => []PrintedAddsUp
<1>1. Misprinted = {}
  BY EveryBillAddsUp DEF Misprinted
<1>2. PrintedAddsUp
  BY <1>1 DEF PrintedAddsUp
<1> QED
  BY <1>2, PTL
=============================================================================
