SPECIFICATION TunerSpec
CONSTANTS
    work_mem = work_mem  shared_buffers = shared_buffers  data_directory = data_directory  idx = idx  idx_2 = idx_2
    Params = {work_mem, shared_buffers, data_directory}  SafeParams = {work_mem, shared_buffers}
    RestartParams = {shared_buffers}  Values = {1, 2, 3}  Indexes = {idx, idx_2}
    Replies <- Advice  Requests <- TuningRequests
INVARIANT DryRunHarmless
