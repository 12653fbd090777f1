------------------------------- MODULE Datasets -------------------------------
(***************************************************************************)
(* Datasets and their examples: internal/cmd/dataset.go and example.go.    *)
(*                                                                         *)
(* An export reads the examples page by page and then writes a file; an    *)
(* upload reads such a file, or one the user wrote, creates a dataset and  *)
(* then one example after the other. Others change datasets meanwhile. All *)
(* are typed calls of the SDK, which makes a call again if no answer comes *)
(* or one that says to (client.go:304), also if it was carried out.        *)
(***************************************************************************)
EXTENDS Integers, Sequences, SequencesExt, FiniteSetsExt

CONSTANTS
  DataRuns,      \* runs of the commands
  DataInputs,    \* what they are given
  MaxDatasets,   \* bound on the datasets created
  MaxExamples,   \* bound on the examples of one
  ExamplePage,   \* how many examples a page has
  CallRetries,   \* how often the SDK makes a call again
  UserFiles      \* files the user may have written: see Item

VARIABLES
  datasets,  \* the datasets by ID: a name, "" for none, and the examples
  dataFile,  \* the file
  dataRuns   \* each run

dataVars == <<datasets, dataFile, dataRuns>>

DatasetIds == 1 .. MaxDatasets

NoTitle == ""

NoDataset == [name |-> NoTitle, examples |-> <<>>]

\* An example has inputs, perhaps outputs, and perhaps a split.
Example(inputs, outputs, split) == [inputs |-> inputs, outputs |-> outputs, split |-> split]

\* What an array of a file may have: an object with these fields, of which one may
\* be missing, "none", or no object, "text"; or no object at all, NoObject.
Item(inputs, outputs) == [inputs |-> inputs, outputs |-> outputs]

NoObject == Item("text", "text")

\* What the server takes and what a file may hold, whatever the objects are; "item"
\* is a whole item.
Objects == (STRING \cup {"item"}) \ {"none", "text"}

Examples == [inputs : Objects, outputs : Objects \cup {"none"}, split : STRING \cup {"none"}]

FileItems == [inputs : Objects \cup {"none", "text"}, outputs : Objects \cup {"none", "text"}]

ASSUME DataAssumption ==
  /\ MaxDatasets \in Nat /\ MaxExamples \in Nat /\ ExamplePage \in Nat \ {0} /\ CallRetries \in Nat
  /\ \A in \in DataInputs : in.limit \in Nat /\ in.example \in Examples
  /\ UserFiles \subseteq Seq(FileItems)

\* A file is missing, "null", or an array, which an export wrote or the user did.
File(kind, items, exported) == [kind |-> kind, items |-> items, exported |-> exported]

\* `of' is the dataset a run created or reads, page what it has read of it or has
\* still to send, and again how often it has repeated the call it is at; alone says
\* that no other run has changed that dataset since, or written the file, heard that
\* no answer about an example that was made got lost, and copied are the items of an
\* exported file to upload.
NoDataRun == [pc |-> "start", of |-> 0, limit |-> 0, page |-> <<>>, again |-> 0, alone |-> TRUE, heard |-> TRUE, copied |-> <<>>]

DataInit ==
  /\ datasets = [d \in DatasetIds |-> NoDataset]
  /\ dataFile \in {File("array", items, FALSE) : items \in UserFiles} \cup {File("missing", <<>>, FALSE)}
  /\ dataRuns = [r \in DataRuns |-> NoDataRun]

-----------------------------------------------------------------------------
BeginData(r, in, cmd) == dataRuns[r].pc = "start" /\ in.cmd = cmd

SetDataRun(r, run) == dataRuns' = [dataRuns EXCEPT ![r] = run]

EndData(r) == [NoDataRun EXCEPT !.pc = "done"]

FailedData == [NoDataRun EXCEPT !.pc = "failed"]

\* After a last call that was carried out: if its answer was lost the call is made
\* again, finds the name used or the object gone, and the run fails.
LastOf(r) == {EndData(r), FailedData}

\* A run that reads or fills a dataset which another run changes.
ChangedBy(r, d, run) ==
  dataRuns' = [x \in DataRuns |->
    IF x = r THEN run ELSE IF dataRuns[x].of = d THEN [dataRuns[x] EXCEPT !.alone = FALSE] ELSE dataRuns[x]]

\* An ID that is used, or the one dataset of a name: resolveDataset asks for the
\* exact name and takes the first.
ResolvedDataset(name) == {d \in DatasetIds : name # NoTitle /\ datasets[d].name = name}

\* Anything that fails; what was created stays.
DataFails(r) ==
  /\ dataRuns[r].pc \notin {"done", "failed"}
  /\ SetDataRun(r, FailedData)
  /\ UNCHANGED <<datasets, dataFile>>

\* The server refuses a name that is used.
NewDataset(r, in, run) ==
  /\ ResolvedDataset(in.name) = {}
  /\ \E d \in DatasetIds :
       /\ datasets[d] = NoDataset /\ \A e \in DatasetIds : e < d => datasets[e] # NoDataset
       /\ datasets' = [datasets EXCEPT ![d].name = in.name]
       /\ ChangedBy(r, d, [run EXCEPT !.of = d])

CreateDataset(r, in) ==
  /\ BeginData(r, in, "create")
  /\ \E run \in LastOf(r) : NewDataset(r, in, run)
  /\ UNCHANGED dataFile

\* `dataset delete': what was resolved is shown, and what was shown goes by its ID.
ResolveToDelete(r, in) ==
  /\ BeginData(r, in, "delete")
  /\ \E d \in ResolvedDataset(in.name) : SetDataRun(r, [NoDataRun EXCEPT !.pc = "delete", !.of = d])
  /\ UNCHANGED <<datasets, dataFile>>

DeleteDataset(r) ==
  /\ dataRuns[r].pc = "delete"
  /\ datasets' = [datasets EXCEPT ![dataRuns[r].of] = [name |-> "deleted", examples |-> <<>>]]
  /\ \E run \in LastOf(r) : ChangedBy(r, dataRuns[r].of, run)
  /\ UNCHANGED dataFile

-----------------------------------------------------------------------------
\* Examples. The latest comes first in a list.

AddExample(d, example) ==
  /\ datasets[d].name \notin {NoTitle, "deleted"} /\ Len(datasets[d].examples) < MaxExamples
  /\ datasets' = [datasets EXCEPT ![d].examples = <<example>> \o @]

\* One call that makes an example. A call whose answer is lost made one, too, and is
\* made again, until the SDK gives up; a call that made none is not seen here.
MakeExample(r, example, run) ==
  LET again == [dataRuns[r] EXCEPT !.again = @ + 1, !.heard = FALSE]
  IN  /\ AddExample(dataRuns[r].of, example)
      /\ \/ ChangedBy(r, dataRuns[r].of, run)
         \/ ChangedBy(r, dataRuns[r].of, IF dataRuns[r].again < CallRetries THEN again ELSE FailedData)
      /\ UNCHANGED dataFile

\* `example create': what it makes goes to the dataset that was resolved.
ResolveToCreate(r, in) ==
  /\ BeginData(r, in, "create example")
  /\ \E d \in ResolvedDataset(in.name) :
       SetDataRun(r, [NoDataRun EXCEPT !.pc = "create", !.of = d, !.page = <<in.example>>])
  /\ UNCHANGED <<datasets, dataFile>>

CreateExample(r) == dataRuns[r].pc = "create" /\ MakeExample(r, Head(dataRuns[r].page), EndData(r))

DeleteExample(r, in) ==
  /\ BeginData(r, in, "delete example")
  /\ \E d \in ResolvedDataset(in.name) : \E n \in DOMAIN datasets[d].examples :
       /\ datasets' = [datasets EXCEPT ![d].examples = RemoveAt(@, n)]
       /\ \E run \in LastOf(r) : ChangedBy(r, d, run)
  /\ UNCHANGED dataFile

-----------------------------------------------------------------------------
\* dataset upload.

\* The objects of an array, or the one object; others are dropped.
ObjectsOf(items) ==
  LET kept == {n \in DOMAIN items : items[n] # NoObject}
      objects[n \in 0 .. Len(items)] ==
        IF n = 0 THEN <<>> ELSE IF n \in kept THEN Append(objects[n - 1], items[n]) ELSE objects[n - 1]
  IN  objects[Len(items)]

\* "null" is neither array nor object. If the answer about the new dataset is lost,
\* its name is in use when the call is made again.
ReadFile(r, in) ==
  LET upload == [NoDataRun EXCEPT !.pc = "upload", !.page = ObjectsOf(dataFile.items),
                                  !.copied = IF dataFile.exported THEN dataFile.items ELSE <<>>]
  IN  /\ BeginData(r, in, "upload") /\ dataFile.kind = "array"
      /\ \E run \in {upload, FailedData} : NewDataset(r, in, run)
      /\ UNCHANGED dataFile

IsObject(value) == value \notin {"none", "text"}

\* An item without an object "inputs" is itself the inputs. The mutant takes
\* outputs only of an item that is itself the inputs.
UploadedM(item) ==
  Example(IF IsObject(item.inputs) THEN item.inputs ELSE "item",
          IF IsObject(item.outputs) /\ ~IsObject(item.inputs) THEN item.outputs ELSE "none", "none")

Uploaded(item) ==
  Example(IF IsObject(item.inputs) THEN item.inputs ELSE "item", IF IsObject(item.outputs) THEN item.outputs ELSE "none", "none")

UploadExample(r) ==
  /\ dataRuns[r].pc = "upload" /\ dataRuns[r].page # <<>>
  /\ MakeExample(r, Uploaded(Head(dataRuns[r].page)), [dataRuns[r] EXCEPT !.page = Tail(@), !.again = 0])

UploadEnds(r) ==
  /\ dataRuns[r].pc = "upload" /\ dataRuns[r].page = <<>>
  /\ SetDataRun(r, EndData(r))
  /\ UNCHANGED <<datasets, dataFile>>

-----------------------------------------------------------------------------
\* dataset export.

StartExport(r, in) ==
  /\ BeginData(r, in, "export")
  /\ \E d \in ResolvedDataset(in.name) :
       SetDataRun(r, [NoDataRun EXCEPT !.pc = "export", !.of = d, !.limit = in.limit])
  /\ UNCHANGED <<datasets, dataFile>>

\* The next page starts where the number of examples read says; the last is
\* one that is empty, or fills the limit.
ExportPage(r) ==
  /\ dataRuns[r].pc = "export" /\ datasets[dataRuns[r].of].name # "deleted"
  /\ LET run  == dataRuns[r]
         all  == datasets[run.of].examples
         size == IF run.limit = 0 THEN ExamplePage ELSE Min({run.limit, ExamplePage})
         page == SubSeq(all, Len(run.page) + 1, Min({Len(all), Len(run.page) + size}))
         read == run.page \o page
         got  == IF run.limit = 0 THEN read ELSE SubSeq(read, 1, Min({run.limit, Len(read)}))
     IN  SetDataRun(r, [run EXCEPT !.page = got, !.pc = IF page = <<>> \/ Len(got) = run.limit THEN "write" ELSE @])
  /\ UNCHANGED <<datasets, dataFile>>

Exported(example) == Item(example.inputs, example.outputs)

\* os.WriteFile; no examples make the file "null".
WriteExport(r) ==
  /\ dataRuns[r].pc = "write"
  /\ LET items == [n \in DOMAIN dataRuns[r].page |-> Exported(dataRuns[r].page[n])]
     IN  dataFile' = File(IF items = <<>> THEN "null" ELSE "array", items, TRUE)
  /\ dataRuns' = [x \in DataRuns |->
       IF x = r THEN [dataRuns[r] EXCEPT !.pc = "exported"]
       ELSE IF dataRuns[x].pc = "exported" THEN [dataRuns[x] EXCEPT !.alone = FALSE] ELSE dataRuns[x]]
  /\ UNCHANGED datasets

ExportEnds(r) ==
  /\ dataRuns[r].pc = "exported"
  /\ SetDataRun(r, EndData(r))
  /\ UNCHANGED <<datasets, dataFile>>

DataNext ==
  \/ \E r \in DataRuns, in \in DataInputs :
       \/ CreateDataset(r, in) \/ ResolveToDelete(r, in) \/ ResolveToCreate(r, in) \/ DeleteExample(r, in)
       \/ ReadFile(r, in) \/ StartExport(r, in)
  \/ \E r \in DataRuns :
       \/ DataFails(r) \/ DeleteDataset(r) \/ CreateExample(r) \/ UploadExample(r) \/ UploadEnds(r)
       \/ ExportPage(r) \/ WriteExport(r) \/ ExportEnds(r)

DataSpec == DataInit /\ [][DataNext]_dataVars

-----------------------------------------------------------------------------
\* Properties.

\* The state keeps its shape: an unused ID has nothing, and no dataset more
\* than its bound.
DataTypeOK ==
  /\ \A d \in DatasetIds : Len(datasets[d].examples) <= MaxExamples
  /\ \A d \in DatasetIds : datasets[d].name \in {NoTitle, "deleted"} => datasets[d].examples = <<>>
  /\ dataFile.kind \in {"missing", "null", "array"}
  /\ dataFile.kind # "array" => dataFile.items = <<>>

\* An export that nobody disturbed has written the inputs and outputs of the
\* dataset's examples, each once and in their order, as far as its limit says; and
\* an upload of such a file gives a dataset whose examples have the same inputs
\* and outputs, listed in the reverse order: none is left out, and none is listed
\* twice but one right after the other, when an answer about it was lost, which
\* the upload does not tell. Both hold over any number of pages and of exports and
\* uploads one after the other.
ExamplesSurvive ==
  \A r \in DataRuns : dataRuns[r].alone =>
    LET run    == dataRuns[r]
        listed == datasets[run.of].examples
        last   == Len(run.copied)
    IN  /\ run.pc = "exported" =>
             /\ Len(dataFile.items) = IF run.limit = 0 THEN Len(listed) ELSE Min({run.limit, Len(listed)})
             /\ \A n \in DOMAIN dataFile.items :
                  dataFile.items[n] = Item(listed[n].inputs, listed[n].outputs)
        /\ run.pc = "upload" /\ run.page = <<>> /\ run.copied # <<>> =>
             /\ \E from \in [1 .. Len(listed) -> 1 .. last] :
                  /\ from[1] = last /\ from[Len(listed)] = 1
                  /\ \A n \in 1 .. Len(listed) - 1 : from[n] - from[n + 1] \in {0, 1}
                  /\ \A n \in 1 .. Len(listed) : Item(listed[n].inputs, listed[n].outputs) = run.copied[from[n]]
             /\ run.heard => Len(listed) = last
=============================================================================
