---------------------------- MODULE SyncWatermark ----------------------------
(* The cron job that sends the new items of DSpace to the API
   (scripts/sincronizar_novos_itens.py over scripts/extrair_e_enviar_uuids.py).  A
   round harvests, from OAI-PMH, what changed since the watermark of the last one
   less an overlap; sends what the CSV does not know as sent; keeps failures in a
   queue of retries; and saves watermark and queue together when it ends. *)
EXTENDS Naturals, Sequences, FiniteSets, SequencesExt, FiniteSetsExt

CONSTANTS
    Handles,      \* handles, numbers in the order the harvest lists them
    UuidOf,       \* the item of a handle
    Refused,      \* handles whose item the API refuses with a 4xx
    Rounds,       \* executions of the script that may overlap
    DryRuns,      \* values of --sem-envio
    Reprocess,    \* --reprocessar-modificados
    MaxItems,     \* --max-itens, 0 for no limit
    Batch,        \* CONCORRENCIA * 4: sends that may wait to be collected
    Overlap,      \* --sobreposicao
    MaxTries,     \* MAX_TENTATIVAS_PENDENTE
    Lateness,     \* how late after its datestamp the OAI index shows an item
    MaxTime,      \* bound: changes in DSpace, each at a datestamp of its own
    MaxFaults     \* bound: failed requests, deadlines, skipped or interrupted rounds

ASSUME SyncAssumption ==
    /\ Handles \subseteq Nat /\ IsFiniteSet(Handles) /\ Refused \subseteq Handles
    /\ 0 \notin Rounds
    /\ Reprocess \in BOOLEAN /\ DryRuns \subseteq BOOLEAN
    /\ MaxTries \in Nat \ {0} /\ MaxItems \in Nat /\ Batch \in Nat \ {0}
    /\ Overlap \in Nat /\ Lateness \in Nat /\ MaxTime \in Nat /\ MaxFaults \in Nat

VARIABLES
    now,          \* time, in changes of DSpace
    stamp,        \* stamp[h]: the datestamp OAI shows for h, 0 when it does not
    disk,         \* estado_sincronizacao.json
    csv,          \* itens_uuid.csv: the handles that have a line with a 2xx
    lock,         \* the round that holds the flock, or Nobody
    round,        \* round[r]: an execution of the script
    faults

vars == <<now, stamp, disk, csv, lock, round, faults>>
Nobody == 0

(* Estado: the watermark, whether the last full sweep is less than N days old, the
   attempts of each handle in the queue, and (history) the handles that have not
   changed since a failure took them out of the queue: refused, or given up. *)
Estado == [marca |-> 0, fresh |-> FALSE, pend |-> [h \in Handles |-> 0], left |-> {}]
Off == [pc |-> "off", dry |-> FALSE, estado |-> Estado, full |-> FALSE,
        top |-> 0, cut |-> FALSE, todo |-> <<>>, uuids |-> {}, flight |-> {},
        answer |-> [h \in Handles |-> "none"], colhe |-> FALSE]

Init ==
    /\ now = 0 /\ stamp = [h \in Handles |-> 0]
    /\ disk = Estado
    /\ csv = {}
    /\ lock = Nobody /\ round = [r \in Rounds |-> Off]
    /\ faults = 0

Fault == faults < MaxFaults /\ faults' = faults + 1
UuidsOf(hs) == {UuidOf[h] : h \in hs}

(* ------------------------------ the environment ---------------------------- *)
(* An item is archived or modified, or the OAI index gets to know of it. *)
Publish(h) ==
    /\ now < MaxTime
    /\ now' = now + 1
    /\ \E d \in (stamp[h] + 1) .. (now + 1) : d + Lateness > now /\ stamp' = [stamp EXCEPT ![h] = d]
    /\ disk' = [disk EXCEPT !.left = @ \ {h}]
    /\ round' = [r \in Rounds |-> [round[r] EXCEPT !.estado.left = @ \ {h}]]
    /\ UNCHANGED <<csv, lock, faults>>

(* The last full sweep becomes N days old, in whatever copy of the state. *)
WeekPasses ==
    /\ disk.fresh \/ \E r \in Rounds : round[r].estado.fresh
    /\ disk' = [disk EXCEPT !.fresh = FALSE]
    /\ round' = [r \in Rounds |-> [round[r] EXCEPT !.estado.fresh = FALSE]]
    /\ UNCHANGED <<now, stamp, csv, lock, faults>>

(* ------------------------------ Estado ------------------------------------- *)
Pop(s, h) == [s EXCEPT !.pend[h] = 0]
Leave(s, h) == [Pop(s, h) EXCEPT !.left = @ \cup {h}]
Desiste(s, h) == s.pend[h] + 1 >= MaxTries
MarcarFalha(s, h) ==
    IF Desiste(s, h) THEN Leave(s, h)
    ELSE [s EXCEPT !.pend[h] = @ + 1, !.left = @ \ {h}]

Salvar(r, s) ==
    /\ disk' = s
    /\ round' = [round EXCEPT ![r] = Off]
    /\ lock' = Nobody

(* ------------------------------ a round: rodar ----------------------------- *)
(* cron starts the script, which reads the state before it tries the lock *)
Carregar(r) ==
    /\ round[r].pc = "off"
    /\ \E dry \in DryRuns :
          round' = [round EXCEPT ![r] = [Off EXCEPT !.pc = "loaded", !.dry = dry, !.estado = disk]]
    /\ UNCHANGED <<now, stamp, disk, csv, lock, faults>>

SemTrava == TRUE
Livre == lock = Nobody
Travar(r) ==
    /\ round[r].pc = "loaded"
    /\ IF Livre
       THEN lock' = r /\ round' = [round EXCEPT ![r].pc = "locked"]
       ELSE UNCHANGED lock /\ round' = [round EXCEPT ![r] = Off]
    /\ UNCHANGED <<now, stamp, disk, csv, faults>>

(* GET /api/status says that nothing can be ingested now. *)
Pular(r) ==
    /\ round[r].pc = "locked" /\ ~round[r].dry
    /\ Fault
    /\ Salvar(r, round[r].estado)
    /\ UNCHANGED <<now, stamp, csv>>

Completa(s) == ~s.fresh \/ s.marca = 0
MontarJanela(s) == [full |-> Completa(s), from |-> IF s.marca > Overlap THEN s.marca - Overlap ELSE 0]

(* Handles in the order of the harvest, without repetition. *)
InOrder(hs) ==
    CHOOSE q \in [1 .. Cardinality(hs) -> hs] : \A i, j \in DOMAIN q : i < j => q[i] < q[j]

Queued(s) == InOrder({h \in Handles : s.pend[h] # 0} \ csv)
Listed(s) == {h \in Handles : stamp[h] # 0 /\ (MontarJanela(s).full \/ stamp[h] >= MontarJanela(s).from)}
Modified(s, h) == Reprocess /\ s.marca # 0 /\ stamp[h] > s.marca

Candidates(s) ==
    LET plain(h) == [h |-> h, force |-> FALSE]
        harvested == InOrder({h \in Listed(s) \ ToSet(Queued(s)) : h \in csv => Modified(s, h)})
    IN  [i \in 1 .. Len(Queued(s)) |-> plain(Queued(s)[i])]
        \o [i \in 1 .. Len(harvested) |-> [h |-> harvested[i], force |-> harvested[i] \in csv]]

Truncate(cs) == IF MaxItems > 0 /\ Len(cs) > MaxItems THEN SubSeq(cs, 1, MaxItems) ELSE cs

(* whatever the CSV holds as sent leaves the queue *)
WithoutSent(s) == [s EXCEPT !.pend = [h \in Handles |-> IF h \in csv THEN 0 ELSE @[h]]]

(* the watermark moves only when the round saw and tried the whole window *)
SempreAvanca(cut) == TRUE
Avanca(cut) == ~cut
Avancar(s, full, top, cut) ==
    IF ~Avanca(cut) THEN s
    ELSE [s EXCEPT !.marca = IF top # 0 THEN top ELSE @, !.fresh = IF full THEN TRUE ELSE @]

Colheita(r) ==
    LET s == round[r].estado
        top == Max({0} \cup {stamp[h] : h \in Listed(s)})
        cs == Candidates(s)
        full == MontarJanela(s).full
    IN  /\ round[r].pc = "locked"
        /\ IF cs = <<>>
           THEN Salvar(r, Avancar(WithoutSent(s), full, top, FALSE))
           ELSE /\ round' = [round EXCEPT ![r] =
                      [round[r] EXCEPT !.pc = "sending", !.estado = WithoutSent(s), !.full = full,
                                       !.top = top, !.cut = Truncate(cs) # cs,
                                       !.todo = Truncate(cs), !.uuids = UuidsOf(csv)]]
                /\ UNCHANGED <<disk, lock>>
        /\ UNCHANGED <<now, stamp, csv, faults>>

ColheitaFalhou(r) ==
    /\ round[r].pc = "locked"
    /\ Fault
    /\ Salvar(r, WithoutSent(round[r].estado))
    /\ UNCHANGED <<now, stamp, csv>>

Candidato(r) == Head(round[r].todo)
Sends(r, c) == c.force \/ UuidOf[c.h] \notin round[r].uuids
Skip(r, s) == round' = [round EXCEPT ![r] = [round[r] EXCEPT !.todo = Tail(@), !.estado = s]]

(* The loop has a candidate to take, and not too many sends to collect. *)
Loops(r) ==
    round[r].todo # <<>> /\ ~round[r].colhe /\ Cardinality(round[r].flight) < Batch

(* The loop over the candidates: one that has no uuid fails, another handle of an
   item this round or the CSV knows is skipped, any other is sent by a task. *)
Enviar(r) ==
    /\ Loops(r)
    /\ IF Sends(r, Candidato(r))
       THEN round' = [round EXCEPT ![r] =
               [round[r] EXCEPT !.todo = Tail(@), !.uuids = @ \cup {UuidOf[Candidato(r).h]},
                                !.flight = IF round[r].dry THEN @ ELSE @ \cup {Candidato(r).h}]]
       ELSE Skip(r, Pop(round[r].estado, Candidato(r).h))
    /\ UNCHANGED <<now, stamp, disk, csv, lock, faults>>

SemUuid(r) ==
    /\ Loops(r)
    /\ Fault
    /\ Skip(r, MarcarFalha(round[r].estado, Candidato(r).h))
    /\ UNCHANGED <<now, stamp, disk, csv, lock>>

PrazoEstourado(r) ==
    /\ Loops(r)
    /\ Fault
    /\ round' = [round EXCEPT ![r] = [round[r] EXCEPT !.todo = <<>>, !.cut = TRUE]]
    /\ UNCHANGED <<now, stamp, disk, csv, lock>>

(* A task ends: its answer waits in memory, and no line of the CSV tells of it. *)
Waits(r, h) == h \in round[r].flight /\ round[r].answer[h] = "none" /\ ~round[r].colhe
Answers(r, h, a) == round' = [round EXCEPT ![r].answer[h] = a]

Enviado(r, h) ==
    /\ Waits(r, h) /\ h \notin Refused
    /\ Answers(r, h, "2xx")
    /\ UNCHANGED <<now, stamp, disk, csv, lock, faults>>

Recusado(r, h) ==
    /\ Waits(r, h) /\ h \in Refused
    /\ Answers(r, h, "4xx")
    /\ UNCHANGED <<now, stamp, disk, csv, lock, faults>>

Falhou(r, h) ==
    /\ Waits(r, h)
    /\ Fault
    /\ Answers(r, h, "erro")
    /\ UNCHANGED <<now, stamp, disk, csv, lock>>

(* colher goes through the tasks that have ended, when too many wait or, after the
   last candidate, when all have: a line of the CSV, then the queue, for each. *)
Answered(r) == {h \in round[r].flight : round[r].answer[h] # "none"}
Ready(r) ==
    \/ Cardinality(round[r].flight) >= Batch
    \/ round[r].todo = <<>> /\ Answered(r) = round[r].flight
After(s, h, a) == CASE a = "2xx"  -> Pop(s, h)
                    [] a = "4xx"  -> Leave(s, h)
                    [] a = "erro" -> MarcarFalha(s, h)

Colher(r, h) ==
    /\ h \in Answered(r)
    /\ round[r].colhe \/ Ready(r)
    /\ csv' = IF round[r].answer[h] = "2xx" THEN csv \cup {h} ELSE csv
    /\ round' = [round EXCEPT ![r] =
          [round[r] EXCEPT !.flight = @ \ {h}, !.answer[h] = "none",
                           !.colhe = Answered(r) # {h},
                           !.estado = After(@, h, round[r].answer[h])]]
    /\ UNCHANGED <<now, stamp, disk, lock, faults>>

Terminar(r) ==
    /\ round[r].pc = "sending" /\ round[r].todo = <<>> /\ round[r].flight = {}
    /\ Salvar(r, Avancar(round[r].estado, round[r].full, round[r].top, round[r].cut))
    /\ UNCHANGED <<now, stamp, csv, faults>>

TravaPresa(r) == lock
TravaLivre(r) == IF lock = r THEN Nobody ELSE lock

(* SIGINT or SIGTERM, a kill, an exception that rodar does not catch: nothing is
   saved, the lock is freed, the CSV keeps the lines it has.  The answers that colher
   had not come to are lost with the round. *)
Interromper(r) ==
    /\ round[r].pc # "off"
    /\ Fault
    /\ round' = [round EXCEPT ![r] = Off]
    /\ lock' = TravaLivre(r)
    /\ UNCHANGED <<now, stamp, disk, csv>>

Step(r) ==
    Carregar(r) \/ Travar(r) \/ Colheita(r) \/ Enviar(r) \/ Terminar(r)
    \/ \E h \in Handles : Enviado(r, h) \/ Recusado(r, h) \/ Colher(r, h)
Fails(r) ==
    Pular(r) \/ ColheitaFalhou(r) \/ SemUuid(r) \/ PrazoEstourado(r) \/ Interromper(r)
    \/ \E h \in Handles : Falhou(r, h)

Next ==
    \/ \E h \in Handles : Publish(h)
    \/ WeekPasses
    \/ \E r \in Rounds : Step(r) \/ Fails(r)

(* cron starts the script again and again, a script that runs goes on, and weeks
   pass. *)
Spec == Init /\ [][Next]_vars /\ WF_vars(WeekPasses) /\ \A r \in Rounds : WF_(round[r])(Step(r))

(* -------------------------------- properties ------------------------------- *)
(* What the state on disk still has to do for the handle h. *)
InWindow(h) == disk.marca <= stamp[h] + Overlap
Remembered(h) == InWindow(h) \/ disk.pend[h] # 0 \/ h \in disk.left

(* "a marca d'água pode avançar sem risco de perder item": an item that OAI shows
   and the CSV has no 2xx of is still in the window of the next round, in the queue, or
   was refused or given up and waits for the full sweep.  However late it appeared,
   however rounds overlapped, were cut short, interrupted or read a stale state. *)
NothingSkipped ==
    \A h \in Handles :
        stamp[h] # 0 /\ UuidOf[h] \notin UuidsOf(csv) =>
            \E g \in Handles : UuidOf[g] = UuidOf[h] /\ stamp[g] # 0 /\ Remembered(g)

(* The handles that the API took, as far as the CSV or a round that runs can tell. *)
Accepted == csv \cup {h \in Handles : \E r \in Rounds : round[r].answer[h] = "2xx"}
Posted(r) == round'[r].flight \ round[r].flight

(* No round, however stale the state it read, posts an item whose 2xx is in the CSV,
   whichever round wrote it and even while this one ran, or waits to be written:
   but to reprocess it. *)
NotResent ==
    [][\A r \in Rounds : \A h \in Posted(r) :
          UuidOf[h] \in UuidsOf(Accepted) => Candidato(r).force]_vars

(* Every item that OAI shows and the API takes is sent in the end: failures, refused
   neighbours, stale states and rounds given up only delay it. *)
EveryItemSent ==
    \A h \in Handles \ Refused : stamp[h] # 0 ~> UuidOf[h] \in UuidsOf(csv)
=============================================================================
