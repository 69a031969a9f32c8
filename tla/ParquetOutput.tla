---------------------------- MODULE ParquetOutput ----------------------------
(***************************************************************************)
(* to_parquet: the output directory of a run (rust/src/api.rs), the sinks  *)
(* that fill it (writer.rs) and the split of a batch into one table per    *)
(* protocol (schema/split.rs).  Runs follow one another into the same      *)
(* directory; any call that touches the disk may fail, and the error ends  *)
(* the run where it stands (a crash leaves the same directory).            *)
(*                                                                         *)
(* A row is the set of column prefixes it has a value under.  A file is    *)
(* the run that wrote it, its rows, and whether it has the footer without  *)
(* which no reader opens it.                                               *)
(***************************************************************************)
EXTENDS Integers, Sequences, FiniteSets

CONSTANTS
  Rows,      (* the rows a capture may have                                *)
  MaxBatch,  (* rows in a batch                                            *)
  MaxRows,   (* rows in a capture                                          *)
  MaxRuns    (* runs into the directory                                    *)

ASSUME OutputAssumption ==
  /\ MaxBatch \in Nat \ {0}
  /\ MaxRows \in Nat
  /\ MaxRuns \in Nat

(* Table name and column prefixes.                                         *)
PROTO_TABLES ==
  <<<<"arp", {"arp_"}>>, <<"icmp", {"icmp_", "icmp6_"}>>, <<"igmp", {"igmp_"}>>,
    <<"dns", {"dns_"}>>, <<"http", {"http_", "http2_"}>>, <<"tls", {"tls_", "ja3", "ja4"}>>,
    <<"quic", {"quic_"}>>, <<"dhcp", {"dhcp_", "dhcp6_"}>>, <<"smb", {"smb_", "ntlm_"}>>,
    <<"ssh", {"ssh_", "hassh"}>>, <<"ntp", {"ntp_"}>>, <<"snmp", {"snmp_"}>>,
    <<"smtp", {"smtp_"}>>, <<"ftp", {"ftp_"}>>, <<"imap", {"imap_"}>>, <<"pop3", {"pop3_"}>>,
    <<"irc", {"irc_"}>>, <<"telnet", {"telnet_"}>>, <<"tftp", {"tftp_"}>>, <<"vnc", {"vnc_"}>>,
    <<"ldap", {"ldap_"}>>, <<"kerberos", {"krb_"}>>, <<"radius", {"radius_"}>>,
    <<"rdp", {"rdp_"}>>, <<"mqtt", {"mqtt_"}>>, <<"sip", {"sip_"}>>,
    <<"rtp", {"rtp_", "rtcp_"}>>, <<"netbios", {"nbns_", "nbss_"}>>, <<"syslog", {"syslog_"}>>,
    <<"wireguard", {"wireguard_"}>>, <<"ipsec", {"esp_", "ike_"}>>, <<"modbus", {"modbus_"}>>,
    <<"dnp3", {"dnp3_"}>>, <<"s7comm", {"s7comm_"}>>, <<"enip", {"enip_", "cip_"}>>,
    <<"iec104", {"iec104_"}>>, <<"bacnet", {"bacnet_"}>>,
    <<"tunnel", {"tunnel_", "gre_", "vxlan_", "geneve_", "gtp_", "erspan_", "l2tp_",
                 "teredo_"}>>>>

Tables == {PROTO_TABLES[i] : i \in DOMAIN PROTO_TABLES}

VARIABLES
  run,    (* the runs started so far                                       *)
  mode,   (* "wide" or "split"                                             *)
  phase,  (* where to_parquet stands                                       *)
  input,  (* the rows the run has delivered                                *)
  todo,   (* tables of the batch not yet written: number -> rows           *)
  sinks,  (* the open sinks: file -> rows written                          *)
  files,  (* the closed ones: file -> rows                                 *)
  disk,   (* the Parquet files of the directory                            *)
  meta,   (* _meta.json: the run it is of and its files, or NoMeta         *)
  ended   (* how the last run ended                                        *)

outputVars == <<run, mode, phase, input, todo, sinks, files, disk, meta, ended>>

NoFiles == [f \in {} |-> 0]
NoMeta == [run |-> 0, files |-> NoFiles]

OutputInit ==
  /\ run = 0 /\ mode = "wide" /\ phase = "idle" /\ input = <<>> /\ todo = NoFiles
  /\ sinks = NoFiles /\ files = NoFiles /\ disk = NoFiles
  /\ meta = NoMeta /\ ended = "none"

With(fun, f, v) == [g \in DOMAIN fun \union {f} |-> IF g = f THEN v ELSE fun[g]]
Without(fun, f) == [g \in DOMAIN fun \ {f} |-> fun[g]]

----------------------------------------------------------------------------
(* split.rs.                                                               *)

(* A row belongs to a table if any of its columns is set.                  *)
InTable(row, t) == row \intersect t[2] # {}

(* proto_table: its rows in a batch; none, and there is no table.          *)
proto_table(batch, t) == {i \in DOMAIN batch : InTable(batch[i], t)}

(* The tables a batch has rows for.                                        *)
all_proto_tables(batch) ==
  [i \in {j \in DOMAIN PROTO_TABLES : proto_table(batch, PROTO_TABLES[j]) # {}} |->
     Cardinality(proto_table(batch, PROTO_TABLES[i]))]

(* The table whose turn it is: they are written in PROTO_TABLES order.     *)
FirstDue == {i \in DOMAIN todo : \A j \in DOMAIN todo : i <= j}

Name(i) == PROTO_TABLES[i][1]

----------------------------------------------------------------------------
(* writer.rs.                                                              *)

(* ParquetSink::create truncates the file.                                 *)
Truncated == [run |-> run, rows |-> 0, complete |-> FALSE]

(* A seeded fault: the sink is created again for every batch.              *)
WriteAnew(f, n) ==
  /\ sinks' = With(sinks, f, n)
  /\ disk' = With(disk, f, Truncated)

(* ParquetSink::write, into a sink created on first use.                   *)
Write(f, n) ==
  IF f \in DOMAIN sinks
  THEN sinks' = [sinks EXCEPT ![f] = @ + n] /\ UNCHANGED disk
  ELSE sinks' = With(sinks, f, n) /\ disk' = With(disk, f, Truncated)

(* ParquetSink::close writes the footer.                                   *)
Close(f, n) ==
  /\ disk' = With(disk, f, [run |-> run, rows |-> n, complete |-> TRUE])
  /\ files' = With(files, f, n)
  /\ sinks' = Without(sinks, f)

----------------------------------------------------------------------------
(* to_parquet.                                                             *)

Start ==
  /\ phase = "idle" /\ run < MaxRuns
  /\ run' = run + 1
  /\ mode' \in {"wide", "split"}
  /\ phase' = "batch" /\ ended' = "running"
  /\ input' = <<>> /\ sinks' = NoFiles /\ files' = NoFiles
  /\ UNCHANGED <<todo, disk, meta>>

(* The callback: the packets first, then a table per protocol.             *)
Batch ==
  /\ phase = "batch"
  /\ \E n \in 1..MaxBatch : \E batch \in [1..n -> Rows] :
       /\ Len(input) + n <= MaxRows
       /\ Write("packets", n)
       /\ input' = input \o batch
       /\ todo' = IF mode = "split" THEN all_proto_tables(batch) ELSE NoFiles
       /\ phase' = IF DOMAIN todo' = {} THEN "batch" ELSE "tables"
  /\ UNCHANGED <<run, mode, files, meta, ended>>

Sidecar ==
  /\ phase = "tables"
  /\ \E i \in FirstDue : Write(Name(i), todo[i]) /\ todo' = Without(todo, i)
  /\ phase' = IF DOMAIN todo' = {} THEN "batch" ELSE "tables"
  /\ UNCHANGED <<run, mode, input, files, meta, ended>>

RunReturns ==
  /\ phase = "batch"
  /\ phase' = "packets"
  /\ UNCHANGED <<run, mode, input, todo, sinks, files, disk, meta, ended>>

(* A capture without packets gets an empty file.                           *)
ClosePackets ==
  /\ phase = "packets" /\ phase' = "sidecars"
  /\ Close("packets", IF "packets" \in DOMAIN sinks THEN sinks["packets"] ELSE 0)
  /\ UNCHANGED <<run, mode, input, todo, meta, ended>>

(* The code closes them in the order of their names.                       *)
CloseSidecars ==
  /\ phase = "sidecars"
  /\ IF DOMAIN sinks # {}
     THEN /\ \E f \in DOMAIN sinks : Close(f, sinks[f])
          /\ UNCHANGED phase
     ELSE /\ phase' = "flows"
          /\ UNCHANGED <<disk, files, sinks>>
  /\ UNCHANGED <<run, mode, input, todo, meta, ended>>

(* A seeded fault: the flows are counted before they are written, and the  *)
(* sink is dropped instead of closed.                                      *)
FlowsDropped ==
  /\ phase = "flows" /\ phase' = "meta"
  /\ \E n \in 0..Len(input) :
       /\ disk' = With(disk, "flows", Truncated)
       /\ files' = With(files, "flows", n)
  /\ UNCHANGED <<run, mode, input, todo, sinks, meta, ended>>

(* The flow table is created, written and closed; at most a flow a row.    *)
Flows ==
  /\ phase = "flows" /\ phase' = "meta"
  /\ \E n \in 0..Len(input) : Close("flows", n)
  /\ UNCHANGED <<run, mode, input, todo, meta, ended>>

Meta ==
  /\ phase = "meta" /\ phase' = "idle"
  /\ meta' = [run |-> run, files |-> files]
  /\ ended' = "ok"
  /\ UNCHANGED <<run, mode, input, todo, sinks, files, disk>>

(* The file the next call creates, if it is not open already.              *)
NextFile ==
  CASE phase \in {"batch", "packets"} -> {"packets"} \ DOMAIN sinks
    [] phase = "tables" -> {Name(i) : i \in FirstDue} \ DOMAIN sinks
    [] phase = "flows" -> {"flows"}
    [] OTHER -> {}

(* The run, or a call on a sink, returns an error: a file that was to be   *)
(* created is untouched, or truncated (create opens the file before it     *)
(* looks at the properties); open sinks are dropped without a footer; a    *)
(* failed write of _meta.json leaves it cut short.                         *)
Fail ==
  /\ phase # "idle" /\ phase' = "idle"
  /\ ended' = "failed"
  /\ \/ UNCHANGED disk
     \/ \E f \in NextFile : disk' = With(disk, f, Truncated)
  /\ \/ UNCHANGED meta
     \/ phase = "meta" /\ meta' = NoMeta
  /\ todo' = NoFiles /\ sinks' = NoFiles
  /\ UNCHANGED <<run, mode, input, files>>

(* All the runs there are have ended.                                      *)
AllEnded == phase = "idle" /\ run = MaxRuns /\ UNCHANGED outputVars

OutputNext ==
  \/ Start \/ Batch \/ Sidecar \/ RunReturns \/ ClosePackets \/ CloseSidecars
  \/ Flows \/ Meta \/ Fail \/ AllEnded

OutputSpec == OutputInit /\ [][OutputNext]_outputVars

----------------------------------------------------------------------------
Names == {t[1] : t \in Tables} \union {"packets", "flows"}

(* Every variable has its type, and the directory and the report hold      *)
(* known files only (to_parquet).                                          *)
OutputTypeOK ==
  /\ run \in 0..MaxRuns
  /\ mode \in {"wide", "split"}
  /\ phase \in {"idle", "batch", "tables", "packets", "sidecars", "flows", "meta"}
  /\ ended \in {"none", "running", "ok", "failed"}
  /\ input \in Seq(Rows) /\ Len(input) <= MaxRows
  /\ DOMAIN todo \subseteq DOMAIN PROTO_TABLES
  /\ \A i \in DOMAIN todo : todo[i] \in 1..MaxRows
  /\ DOMAIN sinks \subseteq Names /\ DOMAIN files \subseteq Names /\ DOMAIN disk \subseteq Names
  /\ \A f \in DOMAIN sinks : sinks[f] \in 0..MaxRows
  /\ \A f \in DOMAIN files : files[f] \in 0..MaxRows
  /\ \A f \in DOMAIN disk :
       disk[f] \in [run : 1..MaxRuns, rows : 0..MaxRows, complete : BOOLEAN]
  /\ meta.run \in 0..MaxRuns /\ DOMAIN meta.files \subseteq Names

(* _meta.json is the commit point of a run: from the moment it is there    *)
(* every file it names is complete, with the rows it gives, and it names   *)
(* every file of its run.  A file stops being what it says only when a     *)
(* later run has opened it, and then it carries that run's rows or has no  *)
(* footer: after a failed run an old _meta.json may stand beside files it  *)
(* does not describe (to_parquet writes it last and never removes it).     *)
MetaIsCommit ==
  /\ \A f \in DOMAIN meta.files :
       \/ disk[f] = [run |-> meta.run, rows |-> meta.files[f], complete |-> TRUE]
       \/ disk[f].run > meta.run
  /\ \A f \in DOMAIN disk : meta.run # 0 /\ disk[f].run = meta.run => f \in DOMAIN meta.files
  /\ ended = "ok" => meta.run = run

Count(t) == Cardinality({i \in DOMAIN input : \E p \in input[i] : p \in t[2]})

(* When to_parquet returns, packets.parquet has every row of the capture   *)
(* and flows.parquet is of this run, even for an empty capture; a table    *)
(* has exactly the rows of its protocol over all batches, and a protocol   *)
(* that is absent, or any in wide mode, has no file of this run.  A file   *)
(* of an earlier run may still be there: nothing clears the directory.     *)
RowsInPlace ==
  ended = "ok" =>
    /\ "packets" \in DOMAIN disk
    /\ disk["packets"] = [run |-> run, rows |-> Len(input), complete |-> TRUE]
    /\ "flows" \in DOMAIN disk /\ disk["flows"].run = run /\ disk["flows"].complete
    /\ \A t \in Tables :
         IF mode = "split" /\ Count(t) > 0
         THEN /\ t[1] \in DOMAIN disk
              /\ disk[t[1]] = [run |-> run, rows |-> Count(t), complete |-> TRUE]
         ELSE t[1] \in DOMAIN disk => disk[t[1]].run < run
=============================================================================
