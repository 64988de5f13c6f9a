SPECIFICATION BatchSpec
CONSTANTS
    work_mem = work_mem  shared_buffers = shared_buffers  data_directory = data_directory  idx = idx  idx_2 = idx_2
    Params = {work_mem, shared_buffers, data_directory}  SafeParams = {work_mem, shared_buffers}
    RestartParams = {shared_buffers}  Values = {1, 2, 3}  Indexes = {idx, idx_2}
    Replies <- Advice  Requests <- TuningRequests
    Configs <- AllConfigs  ReadyAttempts = 2
    Captures <- AllCaptures
    Begin = 1  Commit = 2  Rollback = 3
    Literals = {50, 51}  Untranslated = {60}  Clock = 100
    Texts <- MCTexts  IdMaps <- MCIdMaps  Statements <- MCStatements  PkMap <- MCPk
    Counters = {"a_id_seq", "b_id_seq"}
    Start <- MCStart  Originals <- MCOriginals  Backups <- MCBackups
    IdModes = {"none", "sequence", "correlate", "full"}  MaxDraws = 2
    Tables = {1, 2, 3, 4}  Workloads <- MCWorkloads  Plans <- MCPlans
INVARIANTS Accounted  VerdictTrue ScaledRight CaptureRight LexedRight SubstitutedRight IdsRight GroupsRight TransformRight
CHECK_DEADLOCK FALSE
